---- MODULE Spec2Model ----
(***************************************************************************)
(* Niimbot driver of barcode-label-printer: the packet codec               *)
(* (printer/niimbot/packet.py) and the transaction client                  *)
(* (printer/niimbot/printer.py, PrinterClient).                            *)
(*                                                                         *)
(* Bytes are naturals in 0..255, byte strings are sequences of bytes.      *)
(* Python's 0-based pkt[i] is the sequence element i + 1.                  *)
(***************************************************************************)
EXTENDS Integers, Sequences, FiniteSets, TLC

VARIABLES
    codec,      \* the codec under exercise: last operation, packet, bytes, result
    wire,       \* bytes the device has sent that no transport.read has returned yet
    packetbuf,  \* PrinterClient._packetbuf
    devSent,    \* number of frames the device has put on the wire
    lastRecv,   \* observation of the last _recv call
    txn,        \* the _transceive call in progress or last finished
    raster,     \* the _encode_image generator under exercise
    job,        \* the print_image call
    info,       \* the get_info call
    niimbot,    \* the NiimbotPrinter object and the calls made on it
    svg,        \* the SvgPrinter object and the calls made on it
    host        \* the machine: serial ports enumerated, links open

vars == <<codec, wire, packetbuf, devSent, lastRecv, txn, raster, job, info, niimbot, svg, host>>

(***************************************************************************)
(* Bounds of the model.                                                    *)
(***************************************************************************)
MaxPayloadLen == 2   \* longest payload of the packets given to the codec
MaxRawLen == 7       \* longest arbitrary byte string given to from_bytes
MaxFrames == 2       \* frames the device sends in one behaviour
MaxWidth == 9        \* widest image given to the raster encoder
MaxHeight == 2       \* tallest image given to the raster encoder
MaxEndPolls == 4     \* END_PRINT requests and results are counted up to this number

None == [none |-> TRUE]

Min(a, b) == IF a < b THEN a ELSE b

SeqsUpTo(S, n) == UNION {[1..k -> S] : k \in 0..n}

(***************************************************************************)
(* Python slicing  s[a:b]  for 0 <= a, 0 <= b (clipped to the length).     *)
(***************************************************************************)
Slice(s, a, b) ==
    LET hi == Min(b, Len(s))
    IN  IF a >= hi THEN <<>> ELSE SubSeq(s, a + 1, hi)

\* s[-k:] for k >= 1: the last k elements, or all of s when it is shorter.
Tail_(s, k) == IF Len(s) <= k THEN s ELSE SubSeq(s, Len(s) - k + 1, Len(s))

(***************************************************************************)
(* The ^ operator on bytes.                                                *)
(***************************************************************************)
RECURSIVE BitXor(_, _, _)
BitXor(a, b, n) ==
    IF n = 0 THEN 0
    ELSE (((a % 2) + (b % 2)) % 2) + (2 * BitXor(a \div 2, b \div 2, n - 1))

Xor(a, b) == BitXor(a, b, 8)

\* for i in data: checksum ^= i
RECURSIVE XorAll(_, _)
XorAll(c, data) ==
    IF data = <<>> THEN c ELSE XorAll(Xor(c, Head(data)), Tail(data))

(***************************************************************************)
(* NiimbotPacket                                                           *)
(***************************************************************************)
NiimbotPacket(type_, data) == [type |-> type_, data |-> data]

\* A plausible slip: the length byte left out of the checksum.
to_bytes_nolen(p) ==
    <<85, 85, p.type, Len(p.data)>> \o p.data
        \o <<XorAll(p.type, p.data), 170, 170>>

\* A plausible slip: a one-byte end marker.
to_bytes_shortend(p) ==
    <<85, 85, p.type, Len(p.data)>> \o p.data
        \o <<XorAll(Xor(p.type, Len(p.data)), p.data), 170>>

\* NiimbotPacket.to_bytes (payloads of at most 255 bytes, types in 0..255).
to_bytes(p) ==
    LET checksum == XorAll(Xor(p.type, Len(p.data)), p.data)
    IN  <<85, 85, p.type, Len(p.data)>> \o p.data \o <<checksum, 170, 170>>

Raised(e) == [ok |-> FALSE, err |-> e]

\* A plausible slip: the end marker is not checked.
from_bytes_nosuffix(pkt) ==
    IF Slice(pkt, 0, 2) # <<85, 85>> THEN Raised("AssertionError")
    ELSE IF Len(pkt) < 4 THEN Raised("IndexError")
    ELSE
        LET type_ == pkt[3]
            len_ == pkt[4]
            data == Slice(pkt, 4, 4 + len_)
            checksum == XorAll(Xor(type_, len_), data)
        IN  IF checksum # pkt[Len(pkt) - 2] THEN Raised("AssertionError")
            ELSE [ok |-> TRUE, pkt |-> NiimbotPacket(type_, data)]

\* NiimbotPacket.from_bytes: the packet, or the exception raised.
from_bytes(pkt) ==
    IF Slice(pkt, 0, 2) # <<85, 85>> THEN Raised("AssertionError")
    ELSE IF Tail_(pkt, 2) # <<170, 170>> THEN Raised("AssertionError")
    ELSE IF Len(pkt) < 4 THEN Raised("IndexError")
    ELSE
        LET type_ == pkt[3]
            len_ == pkt[4]
            data == Slice(pkt, 4, 4 + len_)
            checksum == XorAll(Xor(type_, len_), data)
        IN  IF checksum # pkt[Len(pkt) - 2] THEN Raised("AssertionError")
            ELSE [ok |-> TRUE, pkt |-> NiimbotPacket(type_, data)]

(***************************************************************************)
(* Inputs of the codec.                                                    *)
(***************************************************************************)
TypeSample == {0, 1, 85, 170, 219, 255}
PayloadBytes == {0, 1, 170, 255}
RawAlphabet == {0, 1, 85, 170}

CodecPackets ==
    {NiimbotPacket(t, d) : t \in TypeSample, d \in SeqsUpTo(PayloadBytes, MaxPayloadLen)}

RawStrings == SeqsUpTo(RawAlphabet, MaxRawLen)

CodecIdle == [op |-> "none", pkt |-> None, raw |-> <<>>, out |-> None]

\* NiimbotPacket(type, payload): a packet is constructed.
CodecNew ==
    /\ codec.op = "none"
    /\ \E p \in CodecPackets :
        codec' = [op |-> "new", pkt |-> p, raw |-> <<>>, out |-> None]
    /\ UNCHANGED <<wire, packetbuf, devSent, lastRecv, txn, raster, job, info, niimbot, svg, host>>

\* p.to_bytes()
CodecEncode ==
    /\ codec.op = "new"
    /\ codec' = [codec EXCEPT !.op = "encode", !.raw = to_bytes(codec.pkt)]
    /\ UNCHANGED <<wire, packetbuf, devSent, lastRecv, txn, raster, job, info, niimbot, svg, host>>

\* NiimbotPacket.from_bytes(p.to_bytes())
CodecRoundTrip ==
    /\ codec.op = "encode"
    /\ codec' = [codec EXCEPT !.op = "roundtrip", !.out = from_bytes(codec.raw)]
    /\ UNCHANGED <<wire, packetbuf, devSent, lastRecv, txn, raster, job, info, niimbot, svg, host>>

\* One byte of an encoded packet is replaced on the way.
CodecCorrupt ==
    /\ codec.op = "encode"
    /\ \E i \in 1..Len(codec.raw), b \in RawAlphabet :
        /\ b # codec.raw[i]
        /\ codec' = [codec EXCEPT !.op = "corrupt", !.raw = [codec.raw EXCEPT ![i] = b]]
    /\ UNCHANGED <<wire, packetbuf, devSent, lastRecv, txn, raster, job, info, niimbot, svg, host>>

\* An arbitrary byte string arrives.
CodecRaw ==
    /\ codec.op = "none"
    /\ \E r \in RawStrings :
        codec' = [op |-> "raw", pkt |-> None, raw |-> r, out |-> None]
    /\ UNCHANGED <<wire, packetbuf, devSent, lastRecv, txn, raster, job, info, niimbot, svg, host>>

\* NiimbotPacket.from_bytes(raw)
CodecDecode ==
    /\ codec.op \in {"raw", "corrupt"}
    /\ codec' = [codec EXCEPT !.op = "decode", !.out = from_bytes(codec.raw)]
    /\ UNCHANGED <<wire, packetbuf, devSent, lastRecv, txn, raster, job, info, niimbot, svg, host>>

ClientIdle ==
    /\ wire = <<>>
    /\ packetbuf = <<>>
    /\ devSent = 0
    /\ lastRecv = None
    /\ txn = None
    /\ raster = None
    /\ job = None
    /\ info = None
    /\ niimbot = None
    /\ svg = None
    /\ host = [ports |-> <<>>, open |-> {}]

CodecInit == codec = CodecIdle /\ ClientIdle

CodecNext ==
    \/ CodecNew
    \/ CodecEncode
    \/ CodecRoundTrip
    \/ CodecCorrupt
    \/ CodecRaw
    \/ CodecDecode

CodecSpec == CodecInit /\ [][CodecNext]_vars

(***************************************************************************)
(* PrinterClient: the receive buffer and _recv.                            *)
(***************************************************************************)
ReadChunk == 1024    \* self._transport.read(1024)
PollRounds == 6      \* for _ in range(6)
DeviceErrorType == 219
UnsupportedType == 0

\* transport.read(length): whatever has arrived so far, at most length bytes.
TransportReads(length) == {Slice(wire, 0, n) : n \in 0..Min(length, Len(wire))}

\* The while loop of _recv on the buffer, packets being the list so far.
\* An iteration that finds the front frame incomplete changes nothing and
\* the loop has no other exit: the call never returns ("hang").  An
\* exception of from_bytes leaves the buffer as it is and loses the list.
\* A plausible slip: the frame length taken as the length byte + 6.
RECURSIVE RecvLoop_short(_, _)
RecvLoop_short(buf, packets) ==
    IF Len(buf) > 4 THEN
        LET pkt_len == buf[4] + 6
        IN  IF Len(buf) >= pkt_len THEN
                LET r == from_bytes(Slice(buf, 0, pkt_len))
                IN  IF r.ok
                    THEN RecvLoop_short(Slice(buf, pkt_len, Len(buf)), Append(packets, r.pkt))
                    ELSE [outcome |-> r.err, buf |-> buf, packets |-> <<>>]
            ELSE [outcome |-> "hang", buf |-> buf, packets |-> <<>>]
    ELSE [outcome |-> "return", buf |-> buf, packets |-> packets]

\* A plausible slip: the last byte of an extracted frame stays in the buffer.
RECURSIVE RecvLoop_stale(_, _)
RecvLoop_stale(buf, packets) ==
    IF Len(buf) > 4 THEN
        LET pkt_len == buf[4] + 7
        IN  IF Len(buf) >= pkt_len THEN
                LET r == from_bytes(Slice(buf, 0, pkt_len))
                IN  IF r.ok
                    THEN RecvLoop_stale(Slice(buf, pkt_len - 1, Len(buf)), Append(packets, r.pkt))
                    ELSE [outcome |-> r.err, buf |-> buf, packets |-> <<>>]
            ELSE [outcome |-> "hang", buf |-> buf, packets |-> <<>>]
    ELSE [outcome |-> "return", buf |-> buf, packets |-> packets]

\* A plausible slip: a frame that fails to decode is dropped from the buffer.
RECURSIVE RecvLoop_resync(_, _)
RecvLoop_resync(buf, packets) ==
    IF Len(buf) > 4 THEN
        LET pkt_len == buf[4] + 7
        IN  IF Len(buf) >= pkt_len THEN
                LET r == from_bytes(Slice(buf, 0, pkt_len))
                IN  IF r.ok
                    THEN RecvLoop_resync(Slice(buf, pkt_len, Len(buf)), Append(packets, r.pkt))
                    ELSE [outcome |-> r.err, buf |-> Slice(buf, pkt_len, Len(buf)),
                          packets |-> <<>>]
            ELSE [outcome |-> "hang", buf |-> buf, packets |-> <<>>]
    ELSE [outcome |-> "return", buf |-> buf, packets |-> packets]

RECURSIVE RecvLoop(_, _)
RecvLoop(buf, packets) ==
    IF Len(buf) > 4 THEN
        LET pkt_len == buf[4] + 7
        IN  IF Len(buf) >= pkt_len THEN
                LET r == from_bytes(Slice(buf, 0, pkt_len))
                IN  IF r.ok
                    THEN RecvLoop(Slice(buf, pkt_len, Len(buf)), Append(packets, r.pkt))
                    ELSE [outcome |-> r.err, buf |-> buf, packets |-> <<>>]
            ELSE [outcome |-> "hang", buf |-> buf, packets |-> <<>>]
    ELSE [outcome |-> "return", buf |-> buf, packets |-> packets]

\* PrinterClient._recv with chunk the result of its transport read.
_recv(buf, chunk) == RecvLoop(buf \o chunk, <<>>)

RecvObservation(before, chunk, r) ==
    [before |-> before, chunk |-> chunk, outcome |-> r.outcome, packets |-> r.packets]

\* A call of _recv that never returns leaves the single-threaded client stuck.
Hung ==
    \/ lastRecv # None /\ lastRecv.outcome = "hang"
    \/ txn # None /\ txn.state = "hung"

(***************************************************************************)
(* PrinterClient._transceive                                               *)
(***************************************************************************)
\* for packet in self._recv(): ... over one batch; resp is the match so far.
\* A plausible slip: any packet that is no sentinel is taken as the response.
RECURSIVE Scan_anytype(_, _, _)
Scan_anytype(packets, respcode, resp) ==
    IF packets = <<>> THEN [err |-> "", resp |-> resp]
    ELSE
        LET packet == Head(packets)
        IN  IF packet.type = DeviceErrorType THEN [err |-> "ValueError", resp |-> resp]
            ELSE IF packet.type = UnsupportedType
                THEN [err |-> "NotImplementedError", resp |-> resp]
            ELSE Scan_anytype(Tail(packets), respcode, packet)

\* A plausible slip: the scan stops at the first packet of the expected type.
RECURSIVE Scan_stopatmatch(_, _, _)
Scan_stopatmatch(packets, respcode, resp) ==
    IF packets = <<>> THEN [err |-> "", resp |-> resp]
    ELSE
        LET packet == Head(packets)
        IN  IF packet.type = respcode THEN [err |-> "", resp |-> packet]
            ELSE IF packet.type = DeviceErrorType THEN [err |-> "ValueError", resp |-> resp]
            ELSE IF packet.type = UnsupportedType
                THEN [err |-> "NotImplementedError", resp |-> resp]
            ELSE Scan_stopatmatch(Tail(packets), respcode, resp)

\* A plausible slip: both sentinels raise the same exception.
RECURSIVE Scan_oneerror(_, _, _)
Scan_oneerror(packets, respcode, resp) ==
    IF packets = <<>> THEN [err |-> "", resp |-> resp]
    ELSE
        LET packet == Head(packets)
        IN  IF packet.type \in {DeviceErrorType, UnsupportedType}
                THEN [err |-> "ValueError", resp |-> resp]
            ELSE IF packet.type = respcode THEN Scan_oneerror(Tail(packets), respcode, packet)
            ELSE Scan_oneerror(Tail(packets), respcode, resp)

\* A plausible slip: the first packet of the expected type is kept.
RECURSIVE Scan_first(_, _, _)
Scan_first(packets, respcode, resp) ==
    IF packets = <<>> THEN [err |-> "", resp |-> resp]
    ELSE
        LET packet == Head(packets)
        IN  IF packet.type = DeviceErrorType THEN [err |-> "ValueError", resp |-> resp]
            ELSE IF packet.type = UnsupportedType
                THEN [err |-> "NotImplementedError", resp |-> resp]
            ELSE IF packet.type = respcode /\ resp = None
                THEN Scan_first(Tail(packets), respcode, packet)
            ELSE Scan_first(Tail(packets), respcode, resp)

RECURSIVE Scan(_, _, _)
Scan(packets, respcode, resp) ==
    IF packets = <<>> THEN [err |-> "", resp |-> resp]
    ELSE
        LET packet == Head(packets)
        IN  IF packet.type = DeviceErrorType THEN [err |-> "ValueError", resp |-> resp]
            ELSE IF packet.type = UnsupportedType
                THEN [err |-> "NotImplementedError", resp |-> resp]
            ELSE IF packet.type = respcode THEN Scan(Tail(packets), respcode, packet)
            ELSE Scan(Tail(packets), respcode, resp)

\* The state of a _transceive call right after self._send(packet).
TransceiveSent(reqcode, data, respoffset) ==
    [state |-> "polling", reqcode |-> reqcode, data |-> data,
     respcode |-> respoffset + reqcode, resp |-> None, result |-> None, err |-> "",
     reads |-> 0, writes |-> 1, batches |-> <<>>]

\* A plausible slip: the match is returned only when the rounds are over.
TransceiveRound_late(t, r) ==
    LET read == [t EXCEPT !.reads = @ + 1]
    IN  IF r.outcome = "hang" THEN [read EXCEPT !.state = "hung"]
        ELSE IF r.outcome # "return" THEN [read EXCEPT !.state = "raised", !.err = r.outcome]
        ELSE
            LET s == Scan(r.packets, t.respcode, t.resp)
                got == [read EXCEPT !.batches = Append(@, r.packets), !.resp = s.resp]
            IN  IF s.err # "" THEN [got EXCEPT !.state = "raised", !.err = s.err]
                ELSE IF Len(got.batches) = PollRounds
                    THEN [got EXCEPT !.state = "returned", !.result = s.resp]
                ELSE got

\* One round of the polling loop of _transceive, r being what _recv did.
TransceiveRound(t, r) ==
    LET read == [t EXCEPT !.reads = @ + 1]
    IN  IF r.outcome = "hang" THEN [read EXCEPT !.state = "hung"]
        ELSE IF r.outcome # "return" THEN [read EXCEPT !.state = "raised", !.err = r.outcome]
        ELSE
            LET s == Scan(r.packets, t.respcode, t.resp)
                got == [read EXCEPT !.batches = Append(@, r.packets)]
            IN  IF s.err # "" THEN [got EXCEPT !.state = "raised", !.err = s.err]
                ELSE IF s.resp # None
                    THEN [got EXCEPT !.state = "returned", !.resp = s.resp, !.result = s.resp]
                ELSE IF Len(got.batches) = PollRounds
                    THEN [got EXCEPT !.state = "returned"]
                ELSE got

(***************************************************************************)
(* The device and the callers of the client.                               *)
(***************************************************************************)
START_PRINT == 1
GET_INFO == 64

\* Calls of _transceive: start_print(), and get_info(155), whose expected
\* response type 64 + 155 is the device-error type.
Requests ==
    { [reqcode |-> START_PRINT, data |-> <<1>>, respoffset |-> 1],
      [reqcode |-> GET_INFO, data |-> <<155>>, respoffset |-> 155] }

\* Packets the device sends: start-print responses that differ in their
\* payload, the two sentinels, and a packet of another type.
DevicePackets ==
    { NiimbotPacket(START_PRINT + 1, <<0>>), NiimbotPacket(START_PRINT + 1, <<1>>),
      NiimbotPacket(DeviceErrorType, <<>>), NiimbotPacket(UnsupportedType, <<>>),
      NiimbotPacket(4, <<1>>) }

\* A frame damaged on the line: the checksum byte is wrong.
NoiseFrame == <<85, 85, 2, 1, 1, 0, 170, 170>>

\* The device emits a frame.
DeviceSend ==
    /\ devSent < MaxFrames
    /\ \E p \in DevicePackets : wire' = wire \o to_bytes(p)
    /\ devSent' = devSent + 1
    /\ UNCHANGED <<codec, packetbuf, lastRecv, txn, raster, job, info, niimbot, svg, host>>

\* A damaged frame arrives.
LineNoise ==
    /\ devSent < MaxFrames
    /\ wire' = wire \o NoiseFrame
    /\ devSent' = devSent + 1
    /\ UNCHANGED <<codec, packetbuf, lastRecv, txn, raster, job, info, niimbot, svg, host>>

InTransaction == txn # None /\ txn.state = "polling"

\* A call of _recv outside any transaction.
Recv ==
    /\ ~Hung
    /\ ~InTransaction
    /\ \E chunk \in TransportReads(ReadChunk) :
        LET r == _recv(packetbuf, chunk)
        IN  /\ wire' = Slice(wire, Len(chunk), Len(wire))
            /\ packetbuf' = r.buf
            /\ lastRecv' = RecvObservation(packetbuf, chunk, r)
    /\ UNCHANGED <<codec, devSent, txn, raster, job, info, niimbot, svg, host>>

\* _transceive up to and including self._send(packet).
TransceiveStart ==
    /\ ~Hung
    /\ ~InTransaction
    /\ \E q \in Requests : txn' = TransceiveSent(q.reqcode, q.data, q.respoffset)
    /\ UNCHANGED <<codec, wire, packetbuf, devSent, lastRecv, raster, job, info, niimbot, svg, host>>

\* One poll round of _transceive: _recv, the scan of its batch, and the
\* return, the raise, or the sleep before the next round.
TransceivePoll ==
    /\ ~Hung
    /\ InTransaction
    /\ \E chunk \in TransportReads(ReadChunk) :
        LET r == _recv(packetbuf, chunk)
        IN  /\ wire' = Slice(wire, Len(chunk), Len(wire))
            /\ packetbuf' = r.buf
            /\ txn' = TransceiveRound(txn, r)
    /\ UNCHANGED <<codec, devSent, lastRecv, raster, job, info, niimbot, svg, host>>

Init == codec = CodecIdle /\ ClientIdle

\* The client used through its transactions.
Next ==
    \/ DeviceSend
    \/ LineNoise
    \/ TransceiveStart
    \/ TransceivePoll

Spec == Init /\ [][Next]_vars

\* The client used through direct calls of _recv.
RecvNext ==
    \/ DeviceSend
    \/ LineNoise
    \/ Recv

RecvSpec == Init /\ [][RecvNext]_vars

(***************************************************************************)
(* PrinterClient._encode_image                                             *)
(*                                                                         *)
(* An image has a width, a height and the luminance of its pixels,         *)
(* px[y + 1][x + 1], 0 for a dark pixel and 255 for a light one.           *)
(***************************************************************************)
RowType == 133       \* NiimbotPacket(0x85, ...)
MaxRowIndex == 65535 \* struct.pack(">H", y)

AllDark(w) == [x \in 1..w |-> 0]
AllLight(w) == [x \in 1..w |-> 255]
FirstDark(w) == [x \in 1..w |-> IF x = 1 THEN 0 ELSE 255]
LastDark(w) == [x \in 1..w |-> IF x = w THEN 0 ELSE 255]

RowPatterns(w) == {AllDark(w), AllLight(w), FirstDark(w), LastDark(w)}

Images ==
    UNION { { [width |-> w, height |-> h, px |-> p] : p \in [1..h -> RowPatterns(w)] } :
            w \in 0..MaxWidth, h \in 0..MaxHeight }

\* ImageOps.invert(image.convert("L")).convert("1") on one pixel.
Invert(v) == 255 - v

\* int(line_data, 2).to_bytes(n, "big") on a non-empty string of at most
\* 8 * n binary digits, byte by byte (the integer has as many bits as the
\* image has columns): the digits stand right-aligned in the n bytes.
BitsToBytes(bits, n) ==
    LET pad == (8 * n) - Len(bits)
        bit(k) == IF k <= pad THEN 0 ELSE bits[k - pad]
    IN  [i \in 1..n |->
            (128 * bit((8 * (i - 1)) + 1)) + (64 * bit((8 * (i - 1)) + 2))
          + (32 * bit((8 * (i - 1)) + 3)) + (16 * bit((8 * (i - 1)) + 4))
          + (8 * bit((8 * (i - 1)) + 5)) + (4 * bit((8 * (i - 1)) + 6))
          + (2 * bit((8 * (i - 1)) + 7)) + bit((8 * (i - 1)) + 8)]

\* math.ceil(width / 8)
CeilDiv8(w) == (w + 7) \div 8

\* The "0"/"1" digits of row y, one per pixel.
LineData(img, y) ==
    [x \in 1..img.width |-> IF Invert(img.px[y + 1][x]) = 0 THEN 0 ELSE 1]

\* The body of the for loop of _encode_image for row y: the packet yielded,
\* or the exception raised (int("", 2) raises ValueError).
EncodeRow(img, y) ==
    LET line_data == LineData(img, y)
    IN  IF line_data = <<>> THEN Raised("ValueError")
        ELSE IF y > MaxRowIndex THEN Raised("struct.error")
        ELSE
            LET packed == BitsToBytes(line_data, CeilDiv8(img.width))
                header == <<y \div 256, y % 256, 0, 0, 0, 1>>
            IN  [ok |-> TRUE, pkt |-> NiimbotPacket(RowType, header \o packed)]

\* _encode_image(image): the generator is created; no row is computed yet.
RasterStart ==
    /\ raster = None
    /\ \E img \in Images :
        raster' = [image |-> img, y |-> 0, out |-> <<>>, status |-> "running", err |-> ""]
    /\ UNCHANGED <<codec, wire, packetbuf, devSent, lastRecv, txn, job, info, niimbot, svg, host>>

\* next() on the generator: the next row packet, the exception of the row,
\* or the end of the rows.
RasterNext ==
    /\ raster # None
    /\ raster.status = "running"
    /\ IF raster.y < raster.image.height
       THEN LET r == EncodeRow(raster.image, raster.y)
            IN  IF r.ok
                THEN raster' = [raster EXCEPT !.y = @ + 1, !.out = Append(@, r.pkt)]
                ELSE raster' = [raster EXCEPT !.status = "raised", !.err = r.err]
       ELSE raster' = [raster EXCEPT !.status = "exhausted"]
    /\ UNCHANGED <<codec, wire, packetbuf, devSent, lastRecv, txn, job, info, niimbot, svg, host>>

RasterNext_ == RasterStart \/ RasterNext

RasterSpec == Init /\ [][RasterNext_]_vars

(***************************************************************************)
(* PrinterClient.print_image and the commands it calls.                    *)
(*                                                                         *)
(* job.pc is the step print_image is at, job.phase says whether the        *)
(* request of the step is still to be written ("call") or its transaction  *)
(* is polling ("wait").  job.log is what was written to the transport, in  *)
(* order; job.results are the values the command methods returned.  The    *)
(* END_PRINT loop has no bound of its own: its requests and results are    *)
(* recorded up to MaxEndPolls of them.                                     *)
(***************************************************************************)
SET_LABEL_TYPE == 35
SET_LABEL_DENSITY == 33
END_PRINT == 243
START_PAGE_PRINT == 3
END_PAGE_PRINT == 227
SET_DIMENSION == 19
SetOffset == 16      \* third argument of _transceive in set_label_type/density

\* struct.pack(">HH", w, h) for values below 65536.
PackHH(w, h) == <<w \div 256, w % 256, h \div 256, h % 256>>

\* A plausible slip: set_label_density with the default response offset.
Command_plus1(step, j) ==
    CASE step = "density" ->
            [reqcode |-> SET_LABEL_DENSITY, data |-> <<j.density>>, respoffset |-> 1]
      [] step = "labeltype" ->
            [reqcode |-> SET_LABEL_TYPE, data |-> <<1>>, respoffset |-> SetOffset]
      [] step = "start" -> [reqcode |-> START_PRINT, data |-> <<1>>, respoffset |-> 1]
      [] step = "startpage" -> [reqcode |-> START_PAGE_PRINT, data |-> <<1>>, respoffset |-> 1]
      [] step = "dimension" ->
            [reqcode |-> SET_DIMENSION, data |-> PackHH(j.image.height, j.image.width),
             respoffset |-> 1]
      [] step = "endpage" -> [reqcode |-> END_PAGE_PRINT, data |-> <<1>>, respoffset |-> 1]
      [] step = "endprint" -> [reqcode |-> END_PRINT, data |-> <<1>>, respoffset |-> 1]

\* A plausible slip: set_dimension is given the width first.
Command_widthfirst(step, j) ==
    CASE step = "density" ->
            [reqcode |-> SET_LABEL_DENSITY, data |-> <<j.density>>, respoffset |-> SetOffset]
      [] step = "labeltype" ->
            [reqcode |-> SET_LABEL_TYPE, data |-> <<1>>, respoffset |-> SetOffset]
      [] step = "start" -> [reqcode |-> START_PRINT, data |-> <<1>>, respoffset |-> 1]
      [] step = "startpage" -> [reqcode |-> START_PAGE_PRINT, data |-> <<1>>, respoffset |-> 1]
      [] step = "dimension" ->
            [reqcode |-> SET_DIMENSION, data |-> PackHH(j.image.width, j.image.height),
             respoffset |-> 1]
      [] step = "endpage" -> [reqcode |-> END_PAGE_PRINT, data |-> <<1>>, respoffset |-> 1]
      [] step = "endprint" -> [reqcode |-> END_PRINT, data |-> <<1>>, respoffset |-> 1]

\* The _transceive call of each command method, as print_image calls it:
\* set_label_density(density), set_label_type(1), start_print(),
\* start_page_print(), set_dimension(image.height, image.width),
\* end_page_print(), end_print().
Command(step, j) ==
    CASE step = "density" ->
            [reqcode |-> SET_LABEL_DENSITY, data |-> <<j.density>>, respoffset |-> SetOffset]
      [] step = "labeltype" ->
            [reqcode |-> SET_LABEL_TYPE, data |-> <<1>>, respoffset |-> SetOffset]
      [] step = "start" -> [reqcode |-> START_PRINT, data |-> <<1>>, respoffset |-> 1]
      [] step = "startpage" -> [reqcode |-> START_PAGE_PRINT, data |-> <<1>>, respoffset |-> 1]
      [] step = "dimension" ->
            [reqcode |-> SET_DIMENSION, data |-> PackHH(j.image.height, j.image.width),
             respoffset |-> 1]
      [] step = "endpage" -> [reqcode |-> END_PAGE_PRINT, data |-> <<1>>, respoffset |-> 1]
      [] step = "endprint" -> [reqcode |-> END_PRINT, data |-> <<1>>, respoffset |-> 1]

\* assert 1 <= n <= 5 in set_label_density; set_label_type(1) passes its own.
ArgsOk(step, j) == step = "density" => (1 <= j.density /\ j.density <= 5)

\* A plausible slip: the page is started before the print.
NextPc_swapped(pc) ==
    CASE pc = "density" -> "labeltype"
      [] pc = "labeltype" -> "startpage"
      [] pc = "startpage" -> "start"
      [] pc = "start" -> "dimension"
      [] pc = "dimension" -> "rows"
      [] pc = "rows" -> "endpage"
      [] pc = "endpage" -> "endprint"
      [] pc = "endprint" -> "done"

\* The statement of print_image that follows the one at pc.
NextPc(pc) ==
    CASE pc = "density" -> "labeltype"
      [] pc = "labeltype" -> "start"
      [] pc = "start" -> "startpage"
      [] pc = "startpage" -> "dimension"
      [] pc = "dimension" -> "rows"
      [] pc = "rows" -> "endpage"
      [] pc = "endpage" -> "endprint"
      [] pc = "endprint" -> "done"

CommandSteps == {"density", "labeltype", "start", "startpage", "dimension", "endpage", "endprint"}

Failed(j, e) == [j EXCEPT !.pc = "failed", !.err = e]

AppendUpTo(s, e, n) == IF Len(s) < n THEN Append(s, e) ELSE s

\* The rest of a command method once its transaction t has ended, and what
\* print_image does with the value it returns.
Resolved(j, result) ==
    IF j.pc = "endprint"
    THEN LET seen == [j EXCEPT !.endResults = AppendUpTo(@, result, MaxEndPolls)]
         IN  IF result THEN [seen EXCEPT !.pc = "done"] ELSE [seen EXCEPT !.phase = "call"]
    ELSE [j EXCEPT !.pc = NextPc(j.pc), !.phase = "call",
                   !.results = Append(@, <<j.pc, result>>)]

\* A plausible slip: END_PRINT is attempted once, like the other steps.
JobAfter_once(j, t) ==
    IF t.state \in {"polling", "hung"} THEN j
    ELSE IF t.state = "raised" THEN Failed(j, t.err)
    ELSE IF t.result = None THEN Failed(j, "AttributeError")
    ELSE IF t.result.data = <<>> THEN Failed(j, "IndexError")
    ELSE IF j.pc = "endprint"
        THEN [j EXCEPT !.pc = "done",
                       !.endResults = AppendUpTo(@, t.result.data[1] # 0, MaxEndPolls)]
    ELSE Resolved(j, t.result.data[1] # 0)

\* A plausible slip: a missing response is taken as a result of False.
JobAfter_lenient(j, t) ==
    IF t.state \in {"polling", "hung"} THEN j
    ELSE IF t.state = "raised" THEN Failed(j, t.err)
    ELSE IF t.result = None THEN Resolved(j, FALSE)
    ELSE IF t.result.data = <<>> THEN Failed(j, "IndexError")
    ELSE Resolved(j, t.result.data[1] # 0)

\* print_image after a poll round of the transaction of its current step:
\* an exception of _transceive propagates; packet.data[0] raises
\* AttributeError on None and IndexError on an empty payload; otherwise
\* result = bool(packet.data[0]).
JobAfter(j, t) ==
    IF t.state \in {"polling", "hung"} THEN j
    ELSE IF t.state = "raised" THEN Failed(j, t.err)
    ELSE IF t.result = None THEN Failed(j, "AttributeError")
    ELSE IF t.result.data = <<>> THEN Failed(j, "IndexError")
    ELSE Resolved(j, t.result.data[1] # 0)

\* Images and densities given to print_image.
JobImages ==
    {img \in Images : img.width \in {0, 8} /\ \A y \in 1..img.height : img.px[y] = AllDark(img.width)}

Densities == {3, 6}

\* What the device may answer to the request of transaction t: a packet of
\* type request + 1, request + 16 or the expected type, reporting failure
\* or success, or a sentinel.
Replies(t) ==
    {NiimbotPacket(ty, <<b>>) :
        ty \in {x \in {t.reqcode + 1, t.reqcode + SetOffset, t.respcode} : x <= 255}, b \in {0, 1}}
    \cup {NiimbotPacket(DeviceErrorType, <<>>), NiimbotPacket(UnsupportedType, <<>>)}

\* The device answers the outstanding request, once; here devSent counts
\* the answers to that request.
DeviceReply ==
    /\ InTransaction
    /\ devSent = 0
    /\ \E p \in Replies(txn) : wire' = wire \o to_bytes(p)
    /\ devSent' = 1
    /\ UNCHANGED <<codec, packetbuf, lastRecv, txn, raster, job, info, niimbot, svg, host>>

\* print_image(image, density) at its first statement (PIL is available).
NewJob(img, d) ==
    [pc |-> "density", phase |-> "call", image |-> img, density |-> d, y |-> 0,
     log |-> <<>>, results |-> <<>>, endReqs |-> 0, endResults |-> <<>>, err |-> ""]

\* print_image(image, density) is called.
JobBeginWith(images, densities) ==
    /\ job = None
    /\ \E img \in images, d \in densities : job' = NewJob(img, d)
    /\ UNCHANGED <<codec, wire, packetbuf, devSent, lastRecv, txn, raster, info, niimbot, svg, host>>

JobBegin == JobBeginWith(JobImages, Densities)

\* The command method of the current step up to self._send(packet) in
\* _transceive, or its failed assert.
JobCall ==
    /\ job # None
    /\ job.pc \in CommandSteps
    /\ job.phase = "call"
    /\ ~Hung
    /\ IF ArgsOk(job.pc, job)
       THEN LET c == Command(job.pc, job)
                counted == job.pc # "endprint" \/ job.endReqs < MaxEndPolls
            IN  /\ txn' = TransceiveSent(c.reqcode, c.data, c.respoffset)
                /\ job' = [job EXCEPT
                        !.phase = "wait",
                        !.log = IF counted THEN Append(@, NiimbotPacket(c.reqcode, c.data)) ELSE @,
                        !.endReqs = IF job.pc = "endprint" /\ counted THEN @ + 1 ELSE @]
                /\ devSent' = 0
       ELSE /\ job' = Failed(job, "AssertionError")
            /\ UNCHANGED <<txn, devSent, niimbot, svg, host>>
    /\ UNCHANGED <<codec, wire, packetbuf, lastRecv, raster, info, niimbot, svg, host>>

\* One poll round of the transaction of the current step; the read returns
\* what has arrived, whole frames here.
JobPoll ==
    /\ job # None
    /\ job.pc \in CommandSteps
    /\ job.phase = "wait"
    /\ InTransaction
    /\ \E chunk \in {Slice(wire, 0, ReadChunk)} :
       \E r \in {_recv(packetbuf, chunk)} :
       \E t \in {TransceiveRound(txn, r)} :
           /\ wire' = Slice(wire, Len(chunk), Len(wire))
           /\ packetbuf' = r.buf
           /\ txn' = t
           /\ job' = JobAfter(job, t)
    /\ UNCHANGED <<codec, devSent, lastRecv, raster, info, niimbot, svg, host>>

\* for pkt in self._encode_image(image): self._send(pkt) -- one iteration,
\* or the end of the loop.
JobSendRow ==
    /\ job # None
    /\ job.pc = "rows"
    /\ IF job.y < job.image.height
       THEN LET r == EncodeRow(job.image, job.y)
            IN  IF r.ok
                THEN job' = [job EXCEPT !.y = @ + 1, !.log = Append(@, r.pkt)]
                ELSE job' = Failed(job, r.err)
       ELSE job' = [job EXCEPT !.pc = NextPc("rows"), !.phase = "call"]
    /\ UNCHANGED <<codec, wire, packetbuf, devSent, lastRecv, txn, raster, info, niimbot, svg, host>>

JobNext ==
    \/ JobBegin
    \/ JobCall
    \/ DeviceReply
    \/ JobPoll
    \/ JobSendRow

JobSpec == Init /\ [][JobNext]_vars

\* The job of one label: an image of one row of eight dark pixels at
\* density 3.
OneRowJob == JobBeginWith({[width |-> 8, height |-> 1, px |-> <<AllDark(8)>>]}, {3})

FairJobNext ==
    \/ OneRowJob
    \/ JobCall
    \/ DeviceReply
    \/ JobPoll
    \/ JobSendRow

\* The client and the device keep running: a step that can be taken is
\* taken.
FairJobSpec == Init /\ [][FairJobNext]_vars /\ WF_vars(FairJobNext)

(***************************************************************************)
(* Completion polls against a device whose replies may come late.          *)
(***************************************************************************)
\* end_print() up to the write of its request; pending is the number of
\* bytes the device had sent before and that no _recv call has consumed:
\* those in the receive buffer and those the transport holds.
EndPrintCall ==
    /\ ~Hung
    /\ ~InTransaction
    /\ LET c == Command("endprint", None)
       IN  txn' = TransceiveSent(c.reqcode, c.data, c.respoffset)
                    @@ [pending |-> Len(packetbuf) + Len(wire)]
    /\ UNCHANGED <<codec, wire, packetbuf, devSent, lastRecv, raster, job, info, niimbot, svg, host>>

\* The device emits a reply to an END_PRINT request, at any time after the
\* request it answers: printing goes on, or it is finished.
DeviceLate ==
    /\ devSent < MaxFrames
    /\ \E b \in {0, 1} : wire' = wire \o to_bytes(NiimbotPacket(END_PRINT + 1, <<b>>))
    /\ devSent' = devSent + 1
    /\ UNCHANGED <<codec, packetbuf, lastRecv, txn, raster, job, info, niimbot, svg, host>>

StaleNext ==
    \/ EndPrintCall
    \/ DeviceLate
    \/ TransceivePoll

StaleSpec == Init /\ [][StaleNext]_vars

(***************************************************************************)
(* PrinterClient.get_info.                                                 *)
(***************************************************************************)
SOFTVERSION == 9
BATTERY == 10
DEVICESERIAL == 11
HARDVERSION == 12

\* The keys get_info is called with.
InfoKeys == {SOFTVERSION, BATTERY, DEVICESERIAL}

RECURSIVE BytesToInt(_, _)
\* int.from_bytes(data, "big"), acc being the value of the bytes read.
BytesToInt(data, acc) ==
    IF data = <<>> THEN acc ELSE BytesToInt(Slice(data, 1, Len(data)), (acc * 256) + data[1])

_packet_to_int(packet) == BytesToInt(packet.data, 0)

\* bytes.hex(): two hexadecimal digits per byte, here as digit values.
Hex(data) ==
    [i \in 1..(2 * Len(data)) |->
        IF i % 2 = 1 THEN data[(i + 1) \div 2] \div 16 ELSE data[i \div 2] % 16]

\* The value get_info makes of the response packet: the hex string for
\* DEVICESERIAL, the integer over 100 for the versions, else the integer.
InfoValue(key, packet) ==
    CASE key = DEVICESERIAL -> [hex |-> Hex(packet.data)]
      [] key \in {SOFTVERSION, HARDVERSION} -> [num |-> _packet_to_int(packet), den |-> 100]
      [] OTHER -> [num |-> _packet_to_int(packet), den |-> 1]

\* A plausible slip: get_info with the default response offset.
InfoRequest_plus1(key) == TransceiveSent(GET_INFO, <<key>>, 1)

\* self._transceive(RequestCodeEnum.GET_INFO, bytes((key,)), key) up to the
\* write of the request.
InfoRequest(key) == TransceiveSent(GET_INFO, <<key>>, key)

\* get_info after a poll round of its transaction.
InfoAfter(i, t) ==
    IF t.state \in {"polling", "hung"} THEN i
    ELSE IF t.state = "raised" THEN [i EXCEPT !.state = "raised", !.err = t.err]
    ELSE IF t.result = None THEN [i EXCEPT !.state = "returned"]
    ELSE [i EXCEPT !.state = "returned", !.value = InfoValue(i.key, t.result)]

InfoCall ==
    /\ info = None
    /\ \E key \in InfoKeys :
        /\ info' = [key |-> key, state |-> "wait", value |-> None, err |-> ""]
        /\ txn' = InfoRequest(key)
    /\ devSent' = 0
    /\ UNCHANGED <<codec, wire, packetbuf, lastRecv, raster, job, niimbot, svg, host>>

InfoPoll ==
    /\ info # None
    /\ info.state = "wait"
    /\ InTransaction
    /\ \E chunk \in {Slice(wire, 0, ReadChunk)} :
       \E r \in {_recv(packetbuf, chunk)} :
       \E t \in {TransceiveRound(txn, r)} :
           /\ wire' = Slice(wire, Len(chunk), Len(wire))
           /\ packetbuf' = r.buf
           /\ txn' = t
           /\ info' = InfoAfter(info, t)
    /\ UNCHANGED <<codec, devSent, lastRecv, raster, job, niimbot, svg, host>>

InfoNext ==
    \/ InfoCall
    \/ DeviceReply
    \/ InfoPoll

InfoSpec == Init /\ [][InfoNext]_vars

(***************************************************************************)
(* NiimbotPrinter: the model table, the constructor, connect, disconnect   *)
(* and print_image_file, and the serial transport they open.               *)
(*                                                                         *)
(* Model names and connection types are strings the code lower-cases: they *)
(* are sequences of character codes here.  Port names and addresses are    *)
(* only compared, and are strings; an address argument is None or          *)
(* [name |-> string].                                                      *)
(***************************************************************************)
Str_b1 == <<98, 49>>
Str_b18 == <<98, 49, 56>>
Str_b21 == <<98, 50, 49>>
Str_b31 == <<98, 51, 49>>
Str_d11 == <<100, 49, 49>>
Str_d110 == <<100, 49, 49, 48>>
Str_B21 == <<66, 50, 49>>
Str_D11 == <<68, 49, 49>>
Str_x1 == <<120, 49>>
Str_usb == <<117, 115, 98>>
Str_USB == <<85, 83, 66>>
Str_bluetooth == <<98, 108, 117, 101, 116, 111, 111, 116, 104>>
Str_wifi == <<119, 105, 102, 105>>

\* str.lower() on ASCII text.
Lower(str) == [i \in DOMAIN str |-> IF 65 <= str[i] /\ str[i] <= 90 THEN str[i] + 32 ELSE str[i]]

WideHead == 384
NarrowHead == 96

\* NiimbotPrinter.SUPPORTED_MODELS: model -> maximum width.
SUPPORTED_MODELS ==
    (Str_b1 :> WideHead) @@ (Str_b18 :> WideHead) @@ (Str_b21 :> WideHead)
    @@ (Str_b31 :> WideHead) @@ (Str_d11 :> NarrowHead) @@ (Str_d110 :> NarrowHead)

\* A plausible slip: the model name is compared as given.
NiimbotPrinter_init_cased(model, connection_type, address) ==
    [exists |-> model \in DOMAIN SUPPORTED_MODELS,
     raised |-> IF model \in DOMAIN SUPPORTED_MODELS THEN "" ELSE "ValueError",
     model |-> model, connection_type |-> Lower(connection_type), address |-> address,
     client |-> FALSE, transport |-> None, connected |-> <<>>, error |-> None, file |-> None,
     closes |-> <<>>, query |-> None,
     arg |-> [model |-> model, connection_type |-> connection_type]]

\* NiimbotPrinter.__init__: the object, or the ValueError it raises;
\* connected lists what connect() returned, closes the number of
\* transport.close() calls each disconnect() made, query is the
\* get_printer_info call, arg keeps the arguments.
NiimbotPrinter_init(model, connection_type, address) ==
    [exists |-> Lower(model) \in DOMAIN SUPPORTED_MODELS,
     raised |-> IF Lower(model) \in DOMAIN SUPPORTED_MODELS THEN "" ELSE "ValueError",
     model |-> Lower(model), connection_type |-> Lower(connection_type), address |-> address,
     client |-> FALSE, transport |-> None, connected |-> <<>>, error |-> None, file |-> None,
     closes |-> <<>>, query |-> None,
     arg |-> [model |-> model, connection_type |-> connection_type]]

ConnectError(type_, candidates) == [ok |-> FALSE, err |-> type_, candidates |-> candidates]

\* A plausible slip: with several ports present the first is taken.
_detect_port_first(all_ports) ==
    IF Len(all_ports) = 0 THEN ConnectError("RuntimeError", <<>>)
    ELSE [ok |-> TRUE, port |-> all_ports[1]]

\* SerialTransport._detect_port with all_ports the ports list_comports()
\* enumerates.
_detect_port(all_ports) ==
    IF Len(all_ports) = 0 THEN ConnectError("RuntimeError", <<>>)
    ELSE IF Len(all_ports) > 1 THEN ConnectError("RuntimeError", all_ports)
    ELSE [ok |-> TRUE, port |-> all_ports[1]]

Range(f) == {f[i] : i \in DOMAIN f}

\* An open serial port or socket.
Link(name) == [link |-> name]

\* SerialTransport.__init__ (pyserial is available): serial.Serial opens a
\* port that is present and raises SerialException, an OSError, otherwise.
SerialTransport(port, all_ports) ==
    LET p == IF port # "auto" THEN [ok |-> TRUE, port |-> port] ELSE _detect_port(all_ports)
    IN  IF ~p.ok THEN p
        ELSE IF p.port \in Range(all_ports) THEN [ok |-> TRUE, link |-> Link(p.port)]
        ELSE ConnectError("OSError", <<>>)

\* BluetoothTransport.__init__: the socket connects, or raises OSError.
BluetoothTransport(address, reachable) ==
    IF reachable THEN [ok |-> TRUE, link |-> Link(address)] ELSE ConnectError("OSError", <<>>)

\* not self.address, the address being None or a string.
Falsy(address) == address = None \/ address.name = ""

\* The try block of NiimbotPrinter.connect up to the transport.
OpenTransport(n, all_ports, reachable) ==
    IF n.connection_type = Str_bluetooth
    THEN IF Falsy(n.address) THEN ConnectError("ValueError", <<>>)
         ELSE BluetoothTransport(n.address.name, reachable)
    ELSE IF n.connection_type = Str_usb
    THEN SerialTransport(IF Falsy(n.address) THEN "auto" ELSE n.address.name, all_ports)
    ELSE ConnectError("ValueError", <<>>)

\* NiimbotPrinter.connect on object n: the object and the set of open links
\* afterwards.
connect(n, open, all_ports, reachable) ==
    LET r == OpenTransport(n, all_ports, reachable)
    IN  IF r.ok
        THEN [niimbot |-> [n EXCEPT !.transport = r.link, !.client = TRUE,
                                    !.connected = Append(@, TRUE), !.error = None],
              open |-> open \cup {r.link}]
        ELSE [niimbot |-> [n EXCEPT !.connected = Append(@, FALSE),
                                    !.error = [type |-> r.err, candidates |-> r.candidates]],
              open |-> open]

\* A plausible slip: the transport field is not cleared.
disconnect_keeptransport(n, open) ==
    [niimbot |-> [n EXCEPT !.client = FALSE,
                           !.closes = Append(@, (IF n.client THEN 1 ELSE 0)
                                                + (IF n.transport # None THEN 1 ELSE 0))],
     open |-> IF n.client \/ n.transport # None THEN open \ {n.transport} ELSE open]

\* NiimbotPrinter.disconnect: client.close() closes the transport, then the
\* transport is closed again; both fields are cleared.
disconnect(n, open) ==
    [niimbot |-> [n EXCEPT !.client = FALSE, !.transport = None,
                           !.closes = Append(@, (IF n.client THEN 1 ELSE 0)
                                                + (IF n.transport # None THEN 1 ELSE 0))],
     open |-> IF n.client \/ n.transport # None THEN open \ {n.transport} ELSE open]

(***************************************************************************)
(* int(image.height * (max_width / image.width)) in binary64 arithmetic.   *)
(* A significand is a sequence of bits, most significant first.            *)
(***************************************************************************)
Precision == 53

RECURSIVE Shift(_, _)
\* The least s with num * 2^s >= den, for num >= 1.
Shift(num, den) == IF num >= den THEN 0 ELSE 1 + Shift(2 * num, den)

RECURSIVE PowMod2(_, _)
\* 2^k modulo den, for den below 2^15.
PowMod2(k, den) ==
    IF k = 0 THEN 1 % den
    ELSE LET half == PowMod2(k \div 2, den)
             square == (half * half) % den
         IN  IF k % 2 = 0 THEN square ELSE (2 * square) % den

\* num * 2^k modulo den.
Remainder(num, den, k) == ((num % den) * PowMod2(k, den)) % den

\* The first n bits of num / den for den <= num < 2 * den, and what is left
\* of the dividend after them.
DivBits(num, den, n) ==
    [bits |-> [k \in 1..n |->
                IF k = 1 THEN num \div den ELSE (2 * Remainder(num, den, k - 2)) \div den],
     rem |-> Remainder(num, den, n - 1)]

\* bits plus one.
Inc(bits) ==
    LET zeros == {i \in 1..Len(bits) : bits[i] = 0}
    IN  IF zeros = {} THEN <<1>> \o [i \in 1..Len(bits) |-> 0]
        ELSE LET k == CHOOSE i \in zeros : \A j \in zeros : j <= i
             IN  [i \in 1..Len(bits) |-> IF i < k THEN bits[i] ELSE IF i = k THEN 1 ELSE 0]

\* Round to nearest, ties to even, to n significant bits; sticky says that
\* bits beyond the sequence are not all zero.
RoundBits(bits, n, sticky) ==
    IF Len(bits) <= n THEN bits
    ELSE LET kept == SubSeq(bits, 1, n)
             half == bits[n + 1] = 1
             more == sticky \/ \E i \in (n + 2)..Len(bits) : bits[i] = 1
         IN  IF half /\ (more \/ kept[n] = 1) THEN Inc(kept) ELSE kept

RECURSIVE NatBits(_)
NatBits(v) == IF v = 0 THEN <<>> ELSE NatBits(v \div 2) \o <<v % 2>>

\* The eight bits of v < 256.
ByteBits(v) == [j \in 1..8 |-> (v \div (2 ^ (8 - j))) % 2]

\* bits without its leading zeros.
StripZeros(bits) ==
    LET ones == {i \in 1..Len(bits) : bits[i] = 1}
    IN  IF ones = {} THEN <<>>
        ELSE SubSeq(bits, CHOOSE i \in ones : \A j \in ones : i <= j, Len(bits))

\* The i-th group of eight bits of bits, as a number.
Limb(bits, i) ==
    (128 * bits[(8 * i) - 7]) + (64 * bits[(8 * i) - 6]) + (32 * bits[(8 * i) - 5])
    + (16 * bits[(8 * i) - 4]) + (8 * bits[(8 * i) - 3]) + (4 * bits[(8 * i) - 2])
    + (2 * bits[(8 * i) - 1]) + bits[8 * i]

RECURSIVE MulLimbs(_, _, _, _)
\* The first i groups of eight bits of bits, times h, plus carry.
MulLimbs(bits, h, i, carry) ==
    IF i = 0 THEN NatBits(carry)
    ELSE LET v == (Limb(bits, i) * h) + carry
         IN  MulLimbs(bits, h, i - 1, v \div 256) \o ByteBits(v % 256)

\* bits times h, for h below 2^16.
MulBits(bits, h) ==
    LET pad == (8 - (Len(bits) % 8)) % 8
        padded == [i \in 1..pad |-> 0] \o bits
    IN  StripZeros(MulLimbs(padded, h, Len(padded) \div 8, 0))

RECURSIVE BitsValue(_, _)
\* The number the first i bits of bits stand for.
BitsValue(bits, i) ==
    IF i = 0 THEN 0 ELSE (2 * BitsValue(bits, i - 1)) + bits[i]

\* new_height for max_width < width: the quotient max_width / width rounded
\* to a float, the product with height rounded to a float, then truncated.
ScaledHeight(height, max_width, width) ==
    IF height = 0 THEN 0
    ELSE LET s == Shift(max_width, width)
             q == DivBits(max_width * (2 ^ s), width, Precision + 1)
             ratio == RoundBits(q.bits, Precision, q.rem # 0)
             product == MulBits(ratio, height)
             dropped == IF Len(product) > Precision THEN Len(product) - Precision ELSE 0
             rounded == RoundBits(product, Precision, FALSE)
             fraction == ((Precision - 1) + s) - dropped
         IN  IF Len(rounded) > fraction
             THEN BitsValue(rounded, Len(rounded) - fraction)
             ELSE 0

\* A plausible slip: only the d11 is limited.
ClampDensity_d11(model, density) ==
    IF model = Str_d11 /\ density > 3 THEN 3 ELSE density

\* The density print_image_file passes on.
ClampDensity(model, density) ==
    IF model \in {Str_b18, Str_d11, Str_d110} /\ density > 3 THEN 3 ELSE density

\* The image Image.open / Image.resize gives: its size matters here, every
\* pixel is dark.
FileImage(w, h) == [width |-> w, height |-> h, px |-> [y \in 1..h |-> AllDark(w)]]

\* A plausible slip: the height is scaled, the width is kept.
FitWidth_heightonly(model, w, h) ==
    LET max_width == SUPPORTED_MODELS[model]
    IN  IF w > max_width THEN <<w, ScaledHeight(h, max_width, w)>> ELSE <<w, h>>

\* The size of the image print_image_file passes on.
FitWidth(model, w, h) ==
    LET max_width == SUPPORTED_MODELS[model]
    IN  IF w > max_width THEN <<max_width, ScaledHeight(h, max_width, w)>> ELSE <<w, h>>

\* NiimbotPrinter.print_image_file on a connected object n, with rotate = 0
\* and an image file of w x h pixels, up to the first statement of
\* client.print_image.
print_image_file(n, w, h, density) ==
    LET size == FitWidth(n.model, w, h)
    IN  [niimbot |-> [n EXCEPT !.file = [width |-> w, height |-> h, density |-> density,
                                          raised |-> ""]],
         job |-> NewJob(FileImage(size[1], size[2]), ClampDensity(n.model, density))]

(***************************************************************************)
(* NiimbotPrinter.get_printer_info.                                        *)
(***************************************************************************)
\* The four get_info calls in their order: the key asked for and the
\* dictionary key the value is stored under.
InfoQueries ==
    << [key |-> DEVICESERIAL, field |-> "device_serial"],
       [key |-> SOFTVERSION, field |-> "software_version"],
       [key |-> HARDVERSION, field |-> "hardware_version"],
       [key |-> BATTERY, field |-> "battery"] >>

\* except (OSError, ValueError, RuntimeError): NotImplementedError is a
\* RuntimeError.
Caught(err) == err \in {"OSError", "ValueError", "RuntimeError", "NotImplementedError"}

\* A plausible slip: the client is not looked at.
get_printer_info_unchecked(n) ==
    [n EXCEPT !.query = [state |-> "running", err |-> "", pc |-> 1, dict |-> <<>>]]

\* get_printer_info up to info = {}: RuntimeError without a client.
get_printer_info(n) ==
    IF n.client
    THEN [n EXCEPT !.query = [state |-> "running", err |-> "", pc |-> 1, dict |-> <<>>]]
    ELSE [n EXCEPT !.query = [state |-> "raised", err |-> "RuntimeError", pc |-> 0,
                              dict |-> <<>>]]

\* A plausible slip: a failed query is skipped and the next one is made.
QueryAfter_skipping(q, i) ==
    IF i.state = "raised" /\ ~Caught(i.err) THEN [q EXCEPT !.state = "raised", !.err = i.err]
    ELSE LET stored == IF i.state = "raised" THEN q
                       ELSE [q EXCEPT !.dict = Append(@, [field |-> InfoQueries[q.pc].field,
                                                          value |-> i.value])]
         IN  IF q.pc = Len(InfoQueries) THEN [stored EXCEPT !.state = "returned"]
             ELSE [stored EXCEPT !.pc = @ + 1]

\* get_printer_info once the get_info call i of its current statement has
\* returned or raised: the value is stored and the next statement follows;
\* a caught exception ends the try block, another one propagates.
QueryAfter(q, i) ==
    IF i.state = "raised"
    THEN IF Caught(i.err) THEN [q EXCEPT !.state = "returned"]
         ELSE [q EXCEPT !.state = "raised", !.err = i.err]
    ELSE LET stored == [q EXCEPT !.dict = Append(@, [field |-> InfoQueries[q.pc].field,
                                                     value |-> i.value])]
         IN  IF q.pc = Len(InfoQueries) THEN [stored EXCEPT !.state = "returned"]
             ELSE [stored EXCEPT !.pc = @ + 1]

\* No get_printer_info call is in progress.
QueryIdle == IF niimbot.query = None THEN TRUE ELSE niimbot.query.state # "running"

\* What the constructor, connect and print_image_file are called with.
ModelNames == {Str_b1, Str_b18, Str_b21, Str_b31, Str_d11, Str_d110, Str_B21, Str_x1}
ConnectionTypes == {Str_usb, Str_USB, Str_bluetooth, Str_wifi}
Addresses == {None, [name |-> "ttyUSB0"]}
PortLists == {<<>>, <<"ttyUSB0">>, <<"ttyUSB0", "ttyUSB1">>}
FileSizes == {<<8, 1>>, <<96, 1>>, <<97, 2>>, <<384, 2>>, <<4704, 98>>}
FileDensities == {0, 3, 5, 6}

\* The device answers the outstanding request once: with success, with a
\* device error, or with a frame whose checksum is wrong.
DeviceAnswer ==
    /\ InTransaction
    /\ devSent = 0
    /\ \E frame \in {to_bytes(NiimbotPacket(txn.respcode, <<1>>)),
                     to_bytes(NiimbotPacket(DeviceErrorType, <<>>)), NoiseFrame} :
            wire' = wire \o frame
    /\ devSent' = 1
    /\ UNCHANGED <<codec, packetbuf, lastRecv, txn, raster, job, info, niimbot, svg, host>>

NiimbotNew ==
    /\ niimbot = None
    /\ \E model \in ModelNames, connection_type \in ConnectionTypes, address \in Addresses :
            niimbot' = NiimbotPrinter_init(model, connection_type, address)
    /\ UNCHANGED <<codec, wire, packetbuf, devSent, lastRecv, txn, raster, job, info, svg, host>>

\* connect() on an object that is not connected; PrinterClient.__init__
\* starts with an empty buffer.
Connect ==
    /\ niimbot # None
    /\ niimbot.exists
    /\ niimbot.transport = None
    /\ niimbot.connected = <<>>
    /\ \E all_ports \in PortLists, reachable \in BOOLEAN :
        LET r == connect(niimbot, host.open, all_ports, reachable)
        IN  /\ niimbot' = r.niimbot
            /\ host' = [ports |-> IF niimbot.connection_type = Str_usb THEN all_ports
                                  ELSE host.ports,
                        open |-> r.open]
    /\ packetbuf' = <<>>
    /\ UNCHANGED <<codec, wire, devSent, lastRecv, txn, raster, job, info, svg>>

\* print_image_file(image_path, density) (PIL is available): RuntimeError
\* without a client, else the call of client.print_image.
PrintImageFileOf(sizes, densities) ==
    /\ niimbot # None
    /\ niimbot.exists
    /\ niimbot.file = None
    /\ job = None
    /\ QueryIdle
    /\ \E size \in sizes, density \in densities :
        IF niimbot.client
        THEN LET r == print_image_file(niimbot, size[1], size[2], density)
             IN  niimbot' = r.niimbot /\ job' = r.job
        ELSE /\ niimbot' = [niimbot EXCEPT !.file = [width |-> size[1], height |-> size[2],
                                                     density |-> density,
                                                     raised |-> "RuntimeError"]]
             /\ job' = job
    /\ UNCHANGED <<codec, wire, packetbuf, devSent, lastRecv, txn, raster, info, svg, host>>

PrintImageFile == PrintImageFileOf(FileSizes, FileDensities)

JobEnded == job # None /\ job.pc \in {"done", "failed"}

\* disconnect() between calls.
Disconnect ==
    /\ niimbot # None
    /\ niimbot.exists
    /\ niimbot.client
    /\ job = None \/ JobEnded
    /\ LET r == disconnect(niimbot, host.open)
       IN  niimbot' = r.niimbot /\ host' = [host EXCEPT !.open = r.open]
    /\ UNCHANGED <<codec, wire, packetbuf, devSent, lastRecv, txn, raster, job, info, svg>>

NiimbotNext ==
    \/ NiimbotNew
    \/ Connect
    \/ PrintImageFile
    \/ JobCall
    \/ DeviceAnswer
    \/ JobPoll
    \/ JobSendRow
    \/ Disconnect

NiimbotSpec == Init /\ [][NiimbotNext]_vars

(***************************************************************************)
(* NiimbotPrinter used through connect, disconnect, print_image_file and   *)
(* get_printer_info in any order.                                          *)
(***************************************************************************)
MaxWrapCalls == 3    \* calls made on one NiimbotPrinter

\* Another call may be made on the object: no print_image_file or
\* get_printer_info call is in progress, and fewer than MaxWrapCalls calls
\* were made.
CanWrapCall ==
    /\ niimbot # None
    /\ niimbot.exists
    /\ job = None \/ JobEnded
    /\ QueryIdle
    /\ Len(niimbot.connected) + Len(niimbot.closes)
            + (IF niimbot.file = None THEN 0 ELSE 1)
            + (IF niimbot.query = None THEN 0 ELSE 1) < MaxWrapCalls

WrapNew ==
    /\ niimbot = None
    /\ \E model \in {Str_b21, Str_x1}, connection_type \in {Str_usb, Str_bluetooth},
          address \in Addresses :
            niimbot' = NiimbotPrinter_init(model, connection_type, address)
    /\ UNCHANGED <<codec, wire, packetbuf, devSent, lastRecv, txn, raster, job, info, svg, host>>

\* connect(), also on an object that is connected: the new client starts
\* with an empty buffer.
ConnectAny ==
    /\ CanWrapCall
    /\ \E all_ports \in PortLists, reachable \in BOOLEAN :
        LET r == connect(niimbot, host.open, all_ports, reachable)
        IN  /\ niimbot' = r.niimbot
            /\ host' = [ports |-> IF niimbot.connection_type = Str_usb THEN all_ports
                                  ELSE host.ports,
                        open |-> r.open]
            /\ packetbuf' = IF r.niimbot.connected[Len(r.niimbot.connected)]
                            THEN <<>> ELSE packetbuf
    /\ UNCHANGED <<codec, wire, devSent, lastRecv, txn, raster, job, info, svg>>

\* disconnect(), whatever the object is connected to.
DisconnectAny ==
    /\ CanWrapCall
    /\ LET r == disconnect(niimbot, host.open)
       IN  niimbot' = r.niimbot /\ host' = [host EXCEPT !.open = r.open]
    /\ UNCHANGED <<codec, wire, packetbuf, devSent, lastRecv, txn, raster, job, info, svg>>

\* get_printer_info() is called.
GetPrinterInfo ==
    /\ CanWrapCall
    /\ niimbot.query = None
    /\ niimbot' = get_printer_info(niimbot)
    /\ UNCHANGED <<codec, wire, packetbuf, devSent, lastRecv, txn, raster, job, info, svg, host>>

\* self.client.get_info(key) of the current statement up to the write of
\* its request.
QueryCall ==
    /\ niimbot # None
    /\ niimbot.query # None
    /\ niimbot.query.state = "running"
    /\ ~Hung
    /\ ~InTransaction
    /\ info' = [key |-> InfoQueries[niimbot.query.pc].key, state |-> "wait", value |-> None,
                err |-> ""]
    /\ txn' = InfoRequest(InfoQueries[niimbot.query.pc].key)
    /\ devSent' = 0
    /\ UNCHANGED <<codec, wire, packetbuf, lastRecv, raster, job, niimbot, svg, host>>

\* One poll round of the transaction of the current get_info call, and
\* what get_info and get_printer_info do when it ends.
QueryPoll ==
    /\ niimbot # None
    /\ niimbot.query # None
    /\ niimbot.query.state = "running"
    /\ InTransaction
    /\ \E chunk \in {Slice(wire, 0, ReadChunk)} :
       \E r \in {_recv(packetbuf, chunk)} :
       \E t \in {TransceiveRound(txn, r)} :
       \E i \in {InfoAfter(info, t)} :
           /\ wire' = Slice(wire, Len(chunk), Len(wire))
           /\ packetbuf' = r.buf
           /\ txn' = t
           /\ info' = i
           /\ niimbot' = IF i.state = "wait" THEN niimbot
                         ELSE [niimbot EXCEPT !.query = QueryAfter(@, i)]
    /\ UNCHANGED <<codec, devSent, lastRecv, raster, job, svg, host>>

\* The device answers the outstanding request with the sentinel of an
\* unsupported operation.
DeviceRefuses ==
    /\ InTransaction
    /\ devSent = 0
    /\ wire' = wire \o to_bytes(NiimbotPacket(UnsupportedType, <<>>))
    /\ devSent' = 1
    /\ UNCHANGED <<codec, packetbuf, lastRecv, txn, raster, job, info, niimbot, svg, host>>

\* print_image_file of a label of one row of eight pixels at density 3.
PrintLabel == CanWrapCall /\ PrintImageFileOf({<<8, 1>>}, {3})

WrapperNext ==
    \/ WrapNew
    \/ ConnectAny
    \/ DisconnectAny
    \/ PrintLabel
    \/ JobCall
    \/ JobPoll
    \/ JobSendRow
    \/ GetPrinterInfo
    \/ QueryCall
    \/ QueryPoll
    \/ DeviceAnswer
    \/ DeviceRefuses

WrapperSpec == Init /\ [][WrapperNext]_vars

(***************************************************************************)
(* SvgPrinter: the constructor, set_printer, set_niimbot_printer and       *)
(* print_svg_niimbot (the Niimbot package is importable).                  *)
(*                                                                         *)
(* svg.returned lists the calls made on the object with what they           *)
(* returned; svg.printing holds between the call of print_image_file in    *)
(* print_svg_niimbot and its finally clause.                               *)
(***************************************************************************)
MaxCalls == 3        \* calls made on one SvgPrinter

Call(op, arg, value) == [op |-> op, arg |-> arg, value |-> value]

\* SvgPrinter.__init__ with printers what _refresh_printer_list finds.
SvgPrinter_init(printers) ==
    [current_printer |-> None, current_printer_paper |-> None,
     custom_paper_width |-> None, custom_paper_height |-> None,
     available_printers |-> printers,
     niimbot_model |-> Str_b21, niimbot_connection |-> Str_usb, niimbot_address |-> None,
     niimbot_density |-> 3,
     returned |-> <<>>, printing |-> FALSE]

\* A plausible slip: the printer is recorded before it is looked up.
set_printer_eager(sv, printers, printer_name, paper_size, paper_width, paper_height) ==
    LET chosen == [sv EXCEPT !.available_printers = printers,
                            !.current_printer = [name |-> printer_name]]
    IN  [chosen EXCEPT !.returned =
            Append(@, Call("set_printer", printer_name, printer_name \in Range(printers)))]

\* SvgPrinter.set_printer with printers what _refresh_printer_list finds;
\* a paper size is None or [name |-> string], a paper dimension None or
\* [mm |-> number], and float(x) is [float |-> x].
set_printer(sv, printers, printer_name, paper_size, paper_width, paper_height) ==
    LET refreshed == [sv EXCEPT !.available_printers = printers]
    IN  IF printer_name \in Range(printers)
        THEN [refreshed EXCEPT
                !.current_printer = [name |-> printer_name],
                !.current_printer_paper = paper_size,
                !.custom_paper_width =
                    IF paper_width # None /\ paper_height # None
                    THEN [float |-> paper_width.mm] ELSE None,
                !.custom_paper_height =
                    IF paper_width # None /\ paper_height # None
                    THEN [float |-> paper_height.mm] ELSE None,
                !.returned = Append(@, Call("set_printer", printer_name, TRUE))]
        ELSE [refreshed EXCEPT !.returned = Append(@, Call("set_printer", printer_name, FALSE))]

\* SvgPrinter.set_niimbot_printer: the settings are stored, then the model
\* is looked up.
set_niimbot_printer(sv, model, connection, address, density) ==
    [sv EXCEPT !.niimbot_model = model, !.niimbot_connection = connection,
               !.niimbot_address = address, !.niimbot_density = density,
               !.returned = Append(@, Call("set_niimbot_printer", "",
                                           Lower(model) \in DOMAIN SUPPORTED_MODELS))]

\* A plausible slip: the printer is disconnected after a completed job only.
Release_completed(n, open, completed) ==
    IF completed THEN disconnect(n, open) ELSE [niimbot |-> n, open |-> open]

\* finally: printer.disconnect()
Release(n, open, completed) == disconnect(n, open)

PrinterLists == {<<"Zebra">>, <<"Zebra", "Brother">>}
PrinterNames == {"Zebra", "Ghost"}
PaperSizes == {None, [name |-> "A6"]}
PaperDims == {<<None, None>>, <<[mm |-> 50], [mm |-> 30]>>, <<[mm |-> 50], None>>}
SvgModels == {Str_b21, Str_D11, Str_x1}
SvgDensities == {3, 6}
BmpSizes == {<<8, 1>>, <<97, 2>>}

SvgNew ==
    /\ svg = None
    /\ \E printers \in PrinterLists : svg' = SvgPrinter_init(printers)
    /\ UNCHANGED <<codec, wire, packetbuf, devSent, lastRecv, txn, raster, job, info, niimbot, host>>

CanCall == svg # None /\ ~svg.printing /\ niimbot = None /\ Len(svg.returned) < MaxCalls

SetPrinter ==
    /\ CanCall
    /\ \E printers \in PrinterLists, printer_name \in PrinterNames,
          paper_size \in PaperSizes, dims \in PaperDims :
            svg' = set_printer(svg, printers, printer_name, paper_size, dims[1], dims[2])
    /\ UNCHANGED <<codec, wire, packetbuf, devSent, lastRecv, txn, raster, job, info, niimbot, host>>

SetNiimbotPrinter ==
    /\ CanCall
    /\ \E model \in SvgModels, density \in SvgDensities :
            svg' = set_niimbot_printer(svg, model, Str_usb, None, density)
    /\ UNCHANGED <<codec, wire, packetbuf, devSent, lastRecv, txn, raster, job, info, niimbot, host>>

\* print_svg_niimbot(svg_path) up to the first statement of
\* client.print_image, or to its return when the file is missing, the
\* conversion fails, the constructor raises or connect() returns False.
PrintSvgBegin ==
    /\ CanCall
    /\ \E found \in BOOLEAN, converted \in BOOLEAN, size \in BmpSizes,
          all_ports \in PortLists :
        LET n == NiimbotPrinter_init(svg.niimbot_model, svg.niimbot_connection,
                                     svg.niimbot_address)
            c == connect(n, host.open, all_ports, TRUE)
            f == print_image_file(c.niimbot, size[1], size[2], svg.niimbot_density)
            fails == [svg EXCEPT !.returned = Append(@, Call("print_svg_niimbot", "", FALSE))]
        IN  IF ~found \/ ~converted
            THEN svg' = fails /\ UNCHANGED <<niimbot, host, job, packetbuf>>
            ELSE IF ~n.exists
            THEN svg' = fails /\ niimbot' = n /\ UNCHANGED <<host, job, packetbuf>>
            ELSE IF ~c.niimbot.client
            THEN /\ svg' = fails
                 /\ niimbot' = c.niimbot
                 /\ host' = [ports |-> all_ports, open |-> c.open]
                 /\ UNCHANGED <<job, packetbuf>>
            ELSE /\ svg' = [svg EXCEPT !.printing = TRUE]
                 /\ niimbot' = f.niimbot
                 /\ host' = [ports |-> all_ports, open |-> c.open]
                 /\ job' = f.job
                 /\ packetbuf' = <<>>
    /\ UNCHANGED <<codec, wire, devSent, lastRecv, txn, raster, info>>

\* print_image_file has returned or raised: the finally clause, then the
\* return of print_svg_niimbot.
PrintSvgEnd ==
    /\ svg # None
    /\ svg.printing
    /\ JobEnded
    /\ LET r == Release(niimbot, host.open, job.pc = "done")
       IN  /\ niimbot' = r.niimbot
           /\ host' = [host EXCEPT !.open = r.open]
    /\ svg' = [svg EXCEPT !.printing = FALSE,
                          !.returned = Append(@, Call("print_svg_niimbot", "", job.pc = "done"))]
    /\ UNCHANGED <<codec, wire, packetbuf, devSent, lastRecv, txn, raster, job, info>>

SvgNext ==
    \/ SvgNew
    \/ SetPrinter
    \/ SetNiimbotPrinter
    \/ PrintSvgBegin
    \/ JobCall
    \/ DeviceAnswer
    \/ JobPoll
    \/ JobSendRow
    \/ PrintSvgEnd

SvgSpec == Init /\ [][SvgNext]_vars

(***************************************************************************)
(* Claims about the codec, checked under CodecSpec.                         *)
(***************************************************************************)

\* C1: decoding the encoding of a packet gives back a packet with the same
\* type and the same payload.
C1_RoundTrip ==
    codec.op = "roundtrip" =>
        /\ codec.out.ok
        /\ codec.out.pkt.type = codec.pkt.type
        /\ codec.out.pkt.data = codec.pkt.data

C1_Witness ==
    /\ codec.op = "roundtrip"
    /\ codec.pkt.type = 255
    /\ Len(codec.pkt.data) = 2
    /\ codec.out.ok

BadStart(r) == Len(r) < 2 \/ r[1] # 85 \/ r[2] # 85

BadEnd(r) == Len(r) < 2 \/ r[Len(r) - 1] # 170 \/ r[Len(r)] # 170

\* The trailing checksum byte (third from the end) against type XOR length
\* XOR the payload bytes, the payload being what follows the length byte.
BadChecksum(r) ==
    /\ Len(r) >= 4
    /\ r[Len(r) - 2] # XorAll(0, <<r[3], r[4]>> \o Slice(r, 4, 4 + r[4]))

\* C2: decoding returns no packet when the start marker, the end marker or
\* the checksum byte is wrong.
C2_DecodeFails ==
    (codec.op = "decode" /\ (BadStart(codec.raw) \/ BadEnd(codec.raw) \/ BadChecksum(codec.raw)))
        => ~codec.out.ok

C2_Witness ==
    /\ codec.op = "decode"
    /\ codec.pkt # None
    /\ ~BadStart(codec.raw)
    /\ BadEnd(codec.raw)
    /\ ~BadChecksum(codec.raw)
    /\ ~codec.out.ok

\* C3: the encoding of (type, payload) with n payload bytes is the n + 7
\* bytes 55 55, type, n, payload, checksum, AA AA.
C3_WireForm ==
    codec.op = "encode" =>
        LET n == Len(codec.pkt.data)
            b == codec.raw
        IN  /\ Len(b) = n + 7
            /\ b[1] = 85 /\ b[2] = 85
            /\ b[3] = codec.pkt.type
            /\ b[4] = n
            /\ \A i \in 1..n : b[4 + i] = codec.pkt.data[i]
            /\ b[5 + n] = XorAll(0, <<codec.pkt.type, n>> \o codec.pkt.data)
            /\ b[6 + n] = 170 /\ b[7 + n] = 170

C3_Witness ==
    /\ codec.op = "encode"
    /\ Len(codec.pkt.data) = 2
    /\ codec.pkt.data[1] # codec.pkt.data[2]
    /\ Len(codec.raw) = 9

(***************************************************************************)
(* Claims about _recv, checked under RecvSpec.                              *)
(***************************************************************************)

\* C4: a read that delivers two valid frames concatenated into an empty
\* buffer makes _recv return those two packets in order and leave the buffer
\* empty.
C4_Reassembly ==
    lastRecv # None =>
        \A p1, p2 \in DevicePackets :
            (lastRecv.before = <<>> /\ lastRecv.chunk = to_bytes(p1) \o to_bytes(p2))
                => /\ lastRecv.outcome = "return"
                   /\ lastRecv.packets = <<p1, p2>>
                   /\ packetbuf = <<>>

C4_Witness ==
    /\ lastRecv # None
    /\ lastRecv.before = <<>>
    /\ lastRecv.chunk = to_bytes(NiimbotPacket(2, <<1>>)) \o to_bytes(NiimbotPacket(4, <<1>>))
    /\ lastRecv.packets = <<NiimbotPacket(2, <<1>>), NiimbotPacket(4, <<1>>)>>
    /\ packetbuf = <<>>

\* C5: a read that delivers a valid frame and then a strict prefix of a
\* second frame makes _recv return the first packet alone and keep exactly
\* the truncated bytes in the buffer.
C5_PartialFrame ==
    lastRecv # None =>
        \A p1, p2 \in DevicePackets :
            \A k \in 1..(Len(to_bytes(p2)) - 1) :
                (/\ lastRecv.before = <<>>
                 /\ lastRecv.chunk = to_bytes(p1) \o SubSeq(to_bytes(p2), 1, k))
                    => /\ lastRecv.outcome = "return"
                       /\ lastRecv.packets = <<p1>>
                       /\ packetbuf = SubSeq(to_bytes(p2), 1, k)

\* C6: every call of _recv terminates after its one read of at most 1024
\* bytes, whatever the buffer and the read hold.
C6_RecvTerminates ==
    lastRecv # None =>
        /\ Len(lastRecv.chunk) <= ReadChunk
        /\ lastRecv.outcome # "hang"

(***************************************************************************)
(* Claims about _transceive, checked under Spec.                            *)
(***************************************************************************)
IsSentinel(p) == p.type \in {DeviceErrorType, UnsupportedType}

Positions(batch, ty) == {i \in 1..Len(batch) : batch[i].type = ty}

SentinelPositions(batch) == {i \in 1..Len(batch) : IsSentinel(batch[i])}

Least(S) == CHOOSE i \in S : \A j \in S : i <= j

Greatest(S) == CHOOSE i \in S : \A j \in S : i >= j

\* The first packet of the expected type is in the batch of round k.
FirstMatchInRound(t, k) ==
    /\ k \in 1..Len(t.batches)
    /\ Positions(t.batches[k], t.respcode) # {}
    /\ \A j \in 1..(k - 1) : Positions(t.batches[j], t.respcode) = {}

\* No sentinel packet was received before position i of the batch of round k.
NoSentinelBefore(t, k, i) ==
    /\ \A j \in 1..(k - 1) : SentinelPositions(t.batches[j]) = {}
    /\ \A j \in SentinelPositions(t.batches[k]) : j > i

\* C7 as stated: the first packet of the expected type, arriving in round k
\* with no sentinel before it, is what the transaction returns, after k reads
\* and one write.
C7_AsStated ==
    txn # None =>
        \A k \in 1..PollRounds :
            (/\ FirstMatchInRound(txn, k)
             /\ NoSentinelBefore(txn, k, Least(Positions(txn.batches[k], txn.respcode))))
                => /\ txn.state = "returned"
                   /\ txn.result = txn.batches[k][Least(Positions(txn.batches[k], txn.respcode))]
                   /\ txn.reads = k
                   /\ txn.writes = 1

\* C7 amended: when the first packet of the expected type arrives in round k
\* and no sentinel packet arrived before it or in the batch of round k, the
\* transaction returns the last packet of the expected type of that batch,
\* after exactly k reads and exactly one write.
C7_Matching ==
    txn # None =>
        \A k \in 1..PollRounds :
            (/\ FirstMatchInRound(txn, k)
             /\ \A j \in 1..k : SentinelPositions(txn.batches[j]) = {})
                => /\ txn.state = "returned"
                   /\ txn.result = txn.batches[k][Greatest(Positions(txn.batches[k], txn.respcode))]
                   /\ txn.reads = k
                   /\ txn.writes = 1

C7_Witness ==
    /\ txn # None
    /\ FirstMatchInRound(txn, 2)
    /\ txn.batches[1] = <<>>
    /\ txn.state = "returned"
    /\ txn.result = NiimbotPacket(START_PRINT + 1, <<1>>)
    /\ txn.reads = 2

NoExpectedNoSentinel(t) ==
    \A j \in 1..Len(t.batches) :
        /\ Positions(t.batches[j], t.respcode) = {}
        /\ SentinelPositions(t.batches[j]) = {}

\* C8: six poll rounds that bring neither a packet of the expected type nor
\* a sentinel end the transaction with None after six reads and one write;
\* before that, packets of other types do not resolve it.
C8_NoResponse ==
    (txn # None /\ NoExpectedNoSentinel(txn)) =>
        IF Len(txn.batches) = PollRounds
        THEN /\ txn.state = "returned"
             /\ txn.result = None
             /\ txn.err = ""
             /\ txn.reads = 6
             /\ txn.writes = 1
        ELSE /\ txn.state # "returned"
             /\ txn.err \notin {"ValueError", "NotImplementedError"}

C8_Witness ==
    /\ txn # None
    /\ NoExpectedNoSentinel(txn)
    /\ Len(txn.batches) = PollRounds
    /\ \E j \in 1..PollRounds : Len(txn.batches[j]) > 0
    /\ txn.state = "returned"
    /\ txn.result = None

\* C9 as stated: a batch that holds a packet of type 219 makes the
\* transaction raise the device error.
C9_AsStated ==
    txn # None =>
        \A k \in 1..Len(txn.batches) :
            Positions(txn.batches[k], DeviceErrorType) # {}
                => /\ txn.state = "raised"
                   /\ txn.err = "ValueError"
                   /\ txn.result = None

\* C9 amended: a batch that holds a packet of type 219, with no packet of
\* type 0 before it in that batch, makes the transaction raise the device
\* error and return no packet, also when a packet of the expected type is in
\* the batch, before or after it, and whatever the expected type is.
C9_ErrorPriority ==
    txn # None =>
        \A k \in 1..Len(txn.batches) :
            (/\ Positions(txn.batches[k], DeviceErrorType) # {}
             /\ \A j \in Positions(txn.batches[k], UnsupportedType) :
                    j > Least(Positions(txn.batches[k], DeviceErrorType)))
                => /\ txn.state = "raised"
                   /\ txn.err = "ValueError"
                   /\ txn.result = None

C9_Witness ==
    /\ txn # None
    /\ txn.respcode = START_PRINT + 1
    /\ Len(txn.batches) = 1
    /\ txn.batches[1] = <<NiimbotPacket(START_PRINT + 1, <<1>>), NiimbotPacket(DeviceErrorType, <<>>)>>
    /\ txn.err = "ValueError"

\* C10 as stated: a packet of type 0 in the batch of any round makes the
\* transaction raise the not-implemented condition, with no read after that
\* round.
C10_AsStated ==
    txn # None =>
        \A k \in 1..Len(txn.batches) :
            Positions(txn.batches[k], UnsupportedType) # {}
                => /\ txn.state = "raised"
                   /\ txn.err = "NotImplementedError"
                   /\ txn.result = None
                   /\ txn.reads = k

\* C10 amended: a packet of type 0 in the batch of any round, with no packet
\* of type 219 before it in that batch, makes the transaction raise the
\* not-implemented condition, which is neither the device error nor the None
\* result, and no read is made after that round.
C10_Unsupported ==
    txn # None =>
        \A k \in 1..Len(txn.batches) :
            (/\ Positions(txn.batches[k], UnsupportedType) # {}
             /\ \A j \in Positions(txn.batches[k], DeviceErrorType) :
                    j > Least(Positions(txn.batches[k], UnsupportedType)))
                => /\ txn.state = "raised"
                   /\ txn.err = "NotImplementedError"
                   /\ txn.err # "ValueError"
                   /\ txn.result = None
                   /\ txn.reads = k

C10_Witness ==
    /\ txn # None
    /\ Len(txn.batches) = 3
    /\ Positions(txn.batches[3], UnsupportedType) # {}
    /\ txn.err = "NotImplementedError"
    /\ txn.reads = 3

(***************************************************************************)
(* Claims about _encode_image, checked under RasterSpec.                    *)
(***************************************************************************)
RowHeaderOk(pkt, y) ==
    /\ pkt.type = RowType
    /\ Len(pkt.data) >= 6
    /\ (256 * pkt.data[1]) + pkt.data[2] = y
    /\ pkt.data[3] = 0 /\ pkt.data[4] = 0 /\ pkt.data[5] = 0
    /\ pkt.data[6] = 1

\* C18: the encoder yields one packet per row, top to bottom, of type 0x85,
\* whose payload is the row index (2 bytes, big-endian), three zero bytes, a
\* repeat count of 1 and ceil(W/8) packed bytes.
C18_RasterRows ==
    raster # None =>
        /\ raster.status # "raised"
        /\ \A i \in 1..Len(raster.out) :
            /\ RowHeaderOk(raster.out[i], i - 1)
            /\ Len(raster.out[i].data) = 6 + CeilDiv8(raster.image.width)
        /\ raster.status = "exhausted" => Len(raster.out) = raster.image.height

BitOf(b, k) == (b \div (2 ^ k)) % 2

IsDark(img, x, y) == IF img.px[y + 1][x + 1] = 0 THEN 1 ELSE 0

\* C19: pixel x of a row is bit (7 - x mod 8) of packed byte (x div 8), 1
\* for a dark pixel, and the unused low-order bits of the last byte are 0.
C19_MsbFirst ==
    raster # None =>
        \A i \in 1..Len(raster.out) :
            LET w == raster.image.width
                data == raster.out[i].data
            IN  /\ \A x \in 0..(w - 1) :
                    BitOf(data[6 + (x \div 8) + 1], 7 - (x % 8)) = IsDark(raster.image, x, i - 1)
                /\ \A k \in 0..((8 * CeilDiv8(w)) - w - 1) :
                    BitOf(data[Len(data)], k) = 0

\* C20: every row of a zero-width image encodes without error to a packet
\* whose payload is the 6-byte row header alone.
C20_ZeroWidth ==
    (raster # None /\ raster.image.width = 0) =>
        /\ raster.status # "raised"
        /\ \A i \in 1..Len(raster.out) :
            /\ RowHeaderOk(raster.out[i], i - 1)
            /\ Len(raster.out[i].data) = 6
        /\ raster.status = "exhausted" => Len(raster.out) = raster.image.height


(***************************************************************************)
(* Claims about print_image, checked under JobSpec and FairJobSpec.        *)
(***************************************************************************)
TypesOf(log) == [i \in 1..Len(log) |-> log[i].type]

IsPrefix(s, t) == Len(s) <= Len(t) /\ \A i \in 1..Len(s) : s[i] = t[i]

CountOf(log, ty) == Cardinality({i \in 1..Len(log) : log[i].type = ty})

\* The request types of a whole job on an image of h rows that asks e times
\* whether the print has ended.
JobPattern(h, e) ==
    <<SET_LABEL_DENSITY, SET_LABEL_TYPE, START_PRINT, START_PAGE_PRINT, SET_DIMENSION>>
    \o [i \in 1..h |-> RowType] \o <<END_PAGE_PRINT>> \o [i \in 1..e |-> END_PRINT]

RowsWritten(j) == CountOf(j.log, RowType)

C11_LogOrder ==
    job # None =>
        /\ \E e \in 0..MaxEndPolls :
                IsPrefix(TypesOf(job.log), JobPattern(job.image.height, e))
        /\ \A i \in 1..Len(job.log) :
                job.log[i].type = RowType => job.log[i] = EncodeRow(job.image, i - 6).pkt
        /\ InTransaction => (Len(job.log) > 0
                /\ job.log[Len(job.log)] = NiimbotPacket(txn.reqcode, txn.data))

C11_WriteStep ==
    (job # None /\ job'.log # job.log) =>
        /\ ~InTransaction
        /\ Len(job'.log) = Len(job.log) + 1
        /\ job'.log[Len(job'.log)].type = RowType => (txn' = txn /\ wire' = wire)
        /\ job'.log[Len(job'.log)].type # RowType =>
                (InTransaction' /\ txn'.reqcode = job'.log[Len(job'.log)].type)

\* C11: what print_image writes is always a prefix of SET_LABEL_DENSITY,
\* SET_LABEL_TYPE, START_PRINT, START_PAGE_PRINT, SET_DIMENSION, one 0x85
\* packet per image row in row order, END_PAGE_PRINT, END_PRINT...; nothing
\* is written while a transaction is polling; a row is written without a
\* read, and every other write opens the transaction of that request.
C11_Order == [](C11_LogOrder) /\ [][C11_WriteStep]_vars

C11_Witness ==
    /\ job # None
    /\ job.pc = "done"
    /\ job.image.height = 2
    /\ TypesOf(job.log) = JobPattern(2, 1)

\* C12: END_PRINT is repeated until a response reports success: when the
\* job is done the last END_PRINT result is the only successful one, there
\* were as many END_PRINT requests as results, and print_image raised
\* nothing; while it is not done, no result was successful.  (Requests and
\* results are counted below MaxEndPolls.)
C12_EndPolling ==
    (job # None /\ job.endReqs < MaxEndPolls) =>
        /\ CountOf(job.log, END_PRINT) = job.endReqs
        /\ \A i \in 1..Len(job.endResults) :
                job.endResults[i] => (i = Len(job.endResults) /\ job.pc = "done")
        /\ job.pc = "done" =>
                /\ job.err = ""
                /\ job.endReqs >= 1
                /\ Len(job.endResults) = job.endReqs
                /\ job.endResults[job.endReqs]
                /\ job.log[Len(job.log)].type = END_PRINT
        /\ (job.pc = "endprint" /\ job.phase = "call") => Len(job.endResults) = job.endReqs
        /\ (job.pc = "endprint" /\ job.phase = "wait") => Len(job.endResults) = job.endReqs - 1

C12_Witness ==
    /\ job # None
    /\ job.pc = "done"
    /\ job.endResults = <<FALSE, FALSE, TRUE>>
    /\ job.endReqs = 3
    /\ CountOf(job.log, END_PRINT) = 3

\* The transaction ended with a device error, an unsupported operation or
\* no response.
TxnFailed ==
    /\ txn # None
    /\ \/ txn.state = "raised" /\ txn.err \in {"ValueError", "NotImplementedError"}
       \/ txn.state = "returned" /\ txn.result = None

C13_Failed ==
    (job # None /\ TxnFailed) =>
        /\ job.pc = "failed"
        /\ job.err \in {"ValueError", "NotImplementedError", "AttributeError"}
        /\ Len(job.log) > 0
        /\ job.log[Len(job.log)].type = txn.reqcode
        /\ txn.writes = 1
        /\ txn.reqcode # END_PRINT => CountOf(job.log, txn.reqcode) = 1

C13_NoLaterWrite ==
    (job # None /\ job.pc = "failed") => (job' = job /\ txn' = txn)

\* C13: when the transaction of a job step ends with a device error, an
\* unsupported operation or no response, print_image has failed with an
\* error, the request of that step is the last thing written and was
\* written once, and a failed job writes nothing more.
C13_FailStop == [](C13_Failed) /\ [][C13_NoLaterWrite]_vars

C13_Witness ==
    /\ job # None
    /\ job.pc = "failed"
    /\ job.err = "AttributeError"
    /\ txn # None /\ txn.reqcode = START_PRINT /\ txn.reads = PollRounds
    /\ TypesOf(job.log) = <<SET_LABEL_DENSITY, SET_LABEL_TYPE, START_PRINT>>

\* C14 as stated: a job that completed normally had every step before
\* END_PRINT report success.
C14_NoPartialSuccess ==
    (job # None /\ job.pc = "done") =>
        \A i \in 1..Len(job.results) : job.results[i][2]

\* C15 as stated: print_image terminates, by returning or by raising.
C15_Terminates == <>(job # None /\ job.pc \in {"done", "failed"})

\* The batch of round k of t holds a packet of type ty and no sentinel.
CleanReply(t, k, ty) ==
    /\ Positions(t.batches[k], ty) # {}
    /\ \A j \in 1..k : SentinelPositions(t.batches[j]) = {}

\* C16 as stated: a reply of type request + 1 resolves the transaction of
\* every job command.
C16_AsStated ==
    (job # None /\ txn # None) =>
        \A k \in 1..Len(txn.batches) :
            CleanReply(txn, k, txn.reqcode + 1) =>
                (txn.state = "returned" /\ txn.result # None
                    /\ txn.result.type = txn.reqcode + 1)

ResponseOffset(reqcode) ==
    IF reqcode \in {SET_LABEL_DENSITY, SET_LABEL_TYPE} THEN SetOffset ELSE 1

\* C16: the expected response type is request type + 16 for
\* SET_LABEL_DENSITY and SET_LABEL_TYPE (0x31 and 0x33) and request type + 1
\* for start/end print, start/end page and set dimension; a reply of the
\* expected type resolves the transaction and no other type does.
C16_ResponseTypes ==
    (job # None /\ txn # None) =>
        /\ txn.respcode = txn.reqcode + ResponseOffset(txn.reqcode)
        /\ \A k \in 1..Len(txn.batches) :
                CleanReply(txn, k, txn.reqcode + ResponseOffset(txn.reqcode)) =>
                    (txn.state = "returned" /\ txn.result # None)
        /\ txn.result # None =>
                txn.result.type = txn.reqcode + ResponseOffset(txn.reqcode)

C16_Witness ==
    /\ job # None /\ txn # None
    /\ txn.reqcode = SET_LABEL_DENSITY
    /\ txn.state = "returned"
    /\ txn.result # None /\ txn.result.type = 49


(***************************************************************************)
(* Claims about get_info, checked under InfoSpec.                          *)
(***************************************************************************)
InfoEnded == info # None /\ info.state # "wait"

NoneOfType(t, ty) == \A k \in 1..Len(t.batches) : Positions(t.batches[k], ty) = {}

\* C17 as stated: a get_info call during which no packet of type 0x40 + key
\* arrived returns None and raises nothing.
C17_AsStated ==
    (InfoEnded /\ NoneOfType(txn, GET_INFO + info.key)) =>
        (info.state = "returned" /\ info.value = None /\ info.err = "")

\* C17: get_info(key) writes one GET_INFO request whose payload is the key
\* and expects type 0x40 + key; it returns a value only from a packet of
\* that type; six poll rounds that bring neither such a packet nor a
\* sentinel packet (type 219 or 0) make it return None with no error.
C17_GetInfo ==
    info # None =>
        /\ txn.reqcode = GET_INFO
        /\ txn.data = <<info.key>>
        /\ txn.respcode = GET_INFO + info.key
        /\ txn.writes = 1
        /\ info.value # None =>
                /\ info.state = "returned"
                /\ txn.result # None
                /\ txn.result.type = GET_INFO + info.key
                /\ info.value = InfoValue(info.key, txn.result)
        /\ (InfoEnded /\ NoExpectedNoSentinel(txn)) =>
                /\ Len(txn.batches) = PollRounds
                /\ info.state = "returned"
                /\ info.value = None
                /\ info.err = ""
        /\ \A k \in 1..Len(txn.batches) :
                CleanReply(txn, k, GET_INFO + info.key) =>
                    (info.state = "returned" /\ info.value # None)

C17_Witness ==
    /\ InfoEnded
    /\ info.state = "returned"
    /\ info.value = None
    /\ Len(txn.batches) = PollRounds
    /\ \E k \in 1..PollRounds : Positions(txn.batches[k], GET_INFO + 1) # {}


(***************************************************************************)
(* Claims about the receive buffer and duplicate responses.                *)
(***************************************************************************)
RECURSIVE FrameBytes(_)
\* The bytes of the frames of packets, in order.
FrameBytes(packets) ==
    IF packets = <<>> THEN <<>> ELSE to_bytes(Head(packets)) \o FrameBytes(Tail(packets))

\* C24: after a _recv call that returned, the bytes the buffer held before
\* the call followed by the bytes read are exactly the frames returned
\* followed by the buffer, and the buffer is shorter than any frame: no byte
\* of a returned frame stays in it.
C24_BufferInvariant ==
    (lastRecv # None /\ lastRecv.outcome = "return") =>
        /\ lastRecv.before \o lastRecv.chunk = FrameBytes(lastRecv.packets) \o packetbuf
        /\ Len(packetbuf) <= 4

C24_Witness ==
    /\ lastRecv # None
    /\ lastRecv.outcome = "return"
    /\ Len(lastRecv.before) > 0
    /\ Len(lastRecv.packets) = 1
    /\ Len(packetbuf) > 0

\* C30: a transaction that returns a packet returns the last packet of the
\* expected type in the batch of its last poll round, whatever stands
\* before it in that batch.
C30_LastOfBatch ==
    (txn # None /\ txn.state = "returned" /\ txn.result # None) =>
        LET batch == txn.batches[Len(txn.batches)]
        IN  /\ Positions(batch, txn.respcode) # {}
            /\ txn.result = batch[Greatest(Positions(batch, txn.respcode))]
            /\ \A i \in Positions(batch, txn.respcode) :
                    i < Greatest(Positions(batch, txn.respcode)) =>
                        \A j \in i..Len(batch) : ~IsSentinel(batch[j])

C30_Witness ==
    /\ txn # None
    /\ txn.state = "returned"
    /\ Len(txn.batches) > 0
    /\ txn.batches[Len(txn.batches)] =
            <<NiimbotPacket(START_PRINT + 1, <<1>>), NiimbotPacket(START_PRINT + 1, <<0>>)>>
    /\ txn.result = NiimbotPacket(START_PRINT + 1, <<0>>)


(***************************************************************************)
(* Claims about NiimbotPrinter, checked under NiimbotSpec.                 *)
(***************************************************************************)
LimitedModels == {Str_b18, Str_d11, Str_d110}

\* print_image_file has called client.print_image.
Printing == niimbot # None /\ niimbot.file # None /\ niimbot.file.raised = "" /\ job # None

DensitiesWritten(log) ==
    {log[i].data[1] : i \in {k \in 1..Len(log) : log[k].type = SET_LABEL_DENSITY}}

\* C21: for b18, d11 and d110 a job requested with a density above 3 runs
\* with density 3, its SET_LABEL_DENSITY request is written and carries 3,
\* and no request of those models carries more than 3; for the other models
\* the job runs with the requested density.
C21_DensityClamp ==
    Printing =>
        /\ (niimbot.model \in LimitedModels /\ niimbot.file.density > 3) =>
                /\ job.density = 3
                /\ ~(job.pc = "failed" /\ job.log = <<>>)
                /\ job.log # <<>> => job.log[1] = NiimbotPacket(SET_LABEL_DENSITY, <<3>>)
        /\ niimbot.model \in LimitedModels => \A d \in DensitiesWritten(job.log) : d <= 3
        /\ (niimbot.model \notin LimitedModels \/ niimbot.file.density <= 3) =>
                job.density = niimbot.file.density

C21_Witness ==
    /\ Printing
    /\ niimbot.model = Str_d11
    /\ niimbot.file.density = 5
    /\ job.pc = "done"
    /\ DensitiesWritten(job.log) = {3}

\* C22 as stated: an image wider than the model's maximum M is sent with
\* width M and height floor(h * M / w), any other image as it is.
C22_WidthLimit ==
    Printing =>
        LET M == SUPPORTED_MODELS[niimbot.model]
            w == niimbot.file.width
            h == niimbot.file.height
        IN  IF w > M
            THEN job.image.width = M /\ job.image.height = (h * M) \div w
            ELSE job.image.width = w /\ job.image.height = h

\* C23 as stated: a job requested with a density outside 1..5 fails before
\* anything is written.
C23_RejectedBeforeIO ==
    (Printing /\ (niimbot.file.density < 1 \/ niimbot.file.density > 5)) =>
        /\ job.log = <<>>
        /\ job.pc \in {"density", "failed"}
        /\ job.pc = "density" => job.phase = "call"

\* connect() was called on a usb printer without an address: the serial
\* transport is created with port "auto".
AutoConnect ==
    /\ niimbot # None
    /\ niimbot.exists
    /\ niimbot.connected # <<>>
    /\ niimbot.connection_type = Str_usb
    /\ niimbot.address = None

\* C26: with port "auto" the one enumerated port is opened when exactly one
\* is present; with none or several the transport fails with RuntimeError,
\* which lists the candidates when there are several, and no port is open.
C26_AutoDiscovery ==
    AutoConnect =>
        IF Len(host.ports) = 1
        THEN /\ niimbot.connected = <<TRUE>>
             /\ niimbot.error = None
             /\ niimbot.client =>
                    (niimbot.transport = Link(host.ports[1]) /\ host.open = {Link(host.ports[1])})
        ELSE /\ niimbot.connected = <<FALSE>>
             /\ niimbot.transport = None
             /\ host.open = {}
             /\ niimbot.error # None
             /\ niimbot.error.type = "RuntimeError"
             /\ Len(host.ports) > 1 => niimbot.error.candidates = host.ports

C26_Witness ==
    /\ AutoConnect
    /\ host.ports = <<"ttyUSB0", "ttyUSB1">>
    /\ niimbot.connected = <<FALSE>>
    /\ niimbot.error # None
    /\ niimbot.error.candidates = <<"ttyUSB0", "ttyUSB1">>
    /\ host.open = {}

SixModels == {Str_b1, Str_b18, Str_b21, Str_b31, Str_d11, Str_d110}

\* a is b with every capital letter replaced by its small letter.
LowerCaseOf(a, b) ==
    /\ Len(a) = Len(b)
    /\ \A i \in 1..Len(a) :
            /\ ~(65 <= a[i] /\ a[i] <= 90)
            /\ a[i] = b[i] \/ (65 <= b[i] /\ b[i] <= 90 /\ a[i] = b[i] + 32)

\* C27: a constructor call whose model name is none of the six supported
\* names, whatever the case of its letters, raises ValueError, gives no
\* object and opens nothing; a supported name is stored in lower case, as is
\* the connection type.
C27_Constructor ==
    niimbot # None =>
        IF \E m \in SixModels : LowerCaseOf(m, niimbot.arg.model)
        THEN /\ niimbot.exists
             /\ niimbot.raised = ""
             /\ niimbot.model \in SixModels
             /\ LowerCaseOf(niimbot.model, niimbot.arg.model)
             /\ LowerCaseOf(niimbot.connection_type, niimbot.arg.connection_type)
        ELSE /\ ~niimbot.exists
             /\ niimbot.raised = "ValueError"
             /\ niimbot.transport = None
             /\ niimbot.connected = <<>>
             /\ host.open = {}
             /\ job = None

C27_Witness ==
    /\ niimbot # None
    /\ niimbot.arg.model = Str_B21
    /\ niimbot.arg.connection_type = Str_USB
    /\ niimbot.exists
    /\ niimbot.model = Str_b21
    /\ niimbot.connection_type = Str_usb

\* C29: the payload of a SET_DIMENSION request is the image height and then
\* the image width, each as two bytes, high byte first.
C29_Dimension ==
    job # None =>
        \A i \in 1..Len(job.log) :
            job.log[i].type = SET_DIMENSION =>
                job.log[i].data = <<job.image.height \div 256, job.image.height % 256,
                                    job.image.width \div 256, job.image.width % 256>>

C29_Witness ==
    /\ job # None
    /\ job.image.width = 384
    /\ job.image.height = 2
    /\ Len(job.log) >= 5
    /\ job.log[5] = NiimbotPacket(SET_DIMENSION, <<0, 2, 1, 128>>)

\* What the last call on the SvgPrinter returned.
LastCall == svg.returned[Len(svg.returned)]

\* print_svg_niimbot has returned after connect() succeeded.
PrintReturned ==
    /\ svg # None
    /\ niimbot # None
    /\ niimbot.connected = <<TRUE>>
    /\ ~svg.printing

\* C25: once print_svg_niimbot has opened the Niimbot connection, every
\* return of it, also after a job that failed with a device error, no
\* response or a framing error, leaves client and transport cleared and no
\* transport open; a transport is open only while the job is running.
C25_Released ==
    /\ PrintReturned => ~niimbot.client /\ niimbot.transport = None /\ host.open = {}
    /\ (svg # None /\ host.open # {}) => svg.printing

\* A job failed by a framing error after requests were written, and
\* print_svg_niimbot returned False with the transport closed.
C25_Witness ==
    /\ PrintReturned
    /\ job.pc = "failed"
    /\ job.err = "AssertionError"
    /\ Len(job.log) >= 2
    /\ LastCall = Call("print_svg_niimbot", "", FALSE)
    /\ host.open = {}

\* No set_printer call on the SvgPrinter has returned True.
NeverSet ==
    \A i \in 1..Len(svg.returned) :
        ~(svg.returned[i].op = "set_printer" /\ svg.returned[i].value)

\* The step is a set_printer call with a name that the refreshed list lacks.
SetUnknown ==
    /\ svg # None
    /\ svg' # None
    /\ Len(svg'.returned) = Len(svg.returned) + 1
    /\ svg'.returned[Len(svg'.returned)].op = "set_printer"
    /\ svg'.returned[Len(svg'.returned)].arg \notin Range(svg'.available_printers)

C28_Kept ==
    SetUnknown =>
        /\ ~svg'.returned[Len(svg'.returned)].value
        /\ svg'.current_printer = svg.current_printer
        /\ svg'.current_printer_paper = svg.current_printer_paper
        /\ svg'.custom_paper_width = svg.custom_paper_width
        /\ svg'.custom_paper_height = svg.custom_paper_height

\* C28: an SvgPrinter on which set_printer never succeeded has no current
\* printer, and a set_printer call with a name missing from the refreshed
\* list of available printers returns False and leaves current_printer, the
\* paper size and the custom paper dimensions as they were.
C28_SetPrinter ==
    /\ []((svg # None /\ NeverSet) => svg.current_printer = None)
    /\ [][C28_Kept]_vars

\* set_printer succeeded with a paper size and custom dimensions, then
\* failed for an unknown name, and the settings are still there.
C28_Witness ==
    /\ svg # None
    /\ Len(svg.returned) = 2
    /\ svg.returned[1] = Call("set_printer", "Zebra", TRUE)
    /\ svg.returned[2] = Call("set_printer", "Ghost", FALSE)
    /\ svg.current_printer = [name |-> "Zebra"]
    /\ svg.current_printer_paper = [name |-> "A6"]
    /\ svg.custom_paper_width = [float |-> 50]
    /\ svg.custom_paper_height = [float |-> 30]

\* C32 (as stated): whenever from_bytes accepts a byte string, encoding
\* the packet it returns gives that byte string back, so a valid encoded
\* packet whose length byte alone was changed is rejected.
C32_Strict ==
    (codec.op = "decode" /\ codec.out.ok) => to_bytes(codec.out.pkt) = codec.raw

\* The step is a disconnect() call.
DisconnectStep ==
    /\ niimbot # None
    /\ niimbot' # None
    /\ Len(niimbot'.closes) = Len(niimbot.closes) + 1

C35_Step ==
    DisconnectStep =>
        /\ ~niimbot'.client
        /\ niimbot'.transport = None
        /\ niimbot.transport # None => niimbot.transport \notin host'.open
        /\ (~niimbot.client /\ niimbot.transport = None) =>
                /\ niimbot'.closes[Len(niimbot'.closes)] = 0
                /\ niimbot' = [niimbot EXCEPT !.closes = niimbot'.closes]
                /\ UNCHANGED <<host, wire, packetbuf, txn, job, info>>

\* C35: every disconnect() call leaves the transport closed and client and
\* transport None, and a disconnect() call on an object whose client and
\* transport are None already closes nothing and changes nothing.
C35_Idempotent == [][C35_Step]_vars

\* disconnect() was called twice after a successful connect(): the first
\* call closed the transport, through the client and directly, the second
\* closed nothing.
C35_Witness ==
    /\ niimbot # None
    /\ niimbot.connected = <<TRUE>>
    /\ niimbot.closes = <<2, 0>>
    /\ host.open = {}

\* The step is a print_image_file call on an object without client.
PrintStep ==
    /\ niimbot # None
    /\ niimbot' # None
    /\ niimbot.exists
    /\ niimbot.file = None
    /\ niimbot'.file # None

\* The step is a get_printer_info call.
InfoStep ==
    /\ niimbot # None
    /\ niimbot' # None
    /\ niimbot.exists
    /\ niimbot.query = None
    /\ niimbot'.query # None

\* The step is a connect() call that returns False.
ConnectFails ==
    /\ niimbot # None
    /\ niimbot' # None
    /\ Len(niimbot'.connected) = Len(niimbot.connected) + 1
    /\ ~niimbot'.connected[Len(niimbot'.connected)]

\* Without a client both calls raise RuntimeError and neither reads nor
\* writes.
C36_Raises ==
    /\ (PrintStep /\ ~niimbot.client) =>
            /\ niimbot'.file.raised = "RuntimeError"
            /\ UNCHANGED <<wire, packetbuf, txn, job, info, host>>
    /\ (InfoStep /\ ~niimbot.client) =>
            /\ niimbot'.query.state = "raised"
            /\ niimbot'.query.err = "RuntimeError"
            /\ UNCHANGED <<wire, packetbuf, txn, job, info, host>>

\* C36 (as stated): print_image_file and get_printer_info on an object
\* without client raise the not-connected error and do no transport read or
\* write, and a connect() that fails leaves client None.
C36_AsStated == [][C36_Raises /\ (ConnectFails => ~niimbot'.client)]_vars

\* C36 (amended): print_image_file and get_printer_info on an object
\* without client raise the not-connected error and do no transport read or
\* write, and a connect() that fails leaves client, transport and the open
\* links as they were: client is None afterwards when it was None before.
C36_NotConnected ==
    [][/\ C36_Raises
       /\ ConnectFails =>
            /\ niimbot'.client = niimbot.client
            /\ niimbot'.transport = niimbot.transport
            /\ host'.open = host.open]_vars

\* After connect() and disconnect(), get_printer_info raised RuntimeError.
C36_Witness ==
    /\ niimbot # None
    /\ niimbot.connected = <<TRUE>>
    /\ niimbot.closes = <<2>>
    /\ niimbot.query # None
    /\ niimbot.query.state = "raised"
    /\ niimbot.query.err = "RuntimeError"
    /\ txn = None

\* The get_printer_info call on a connected object.
Query == niimbot.query

Querying == niimbot # None /\ niimbot.query # None /\ niimbot.query.pc >= 1

\* The fields stored so far are the first fields of the order; the query
\* in progress is the next of the order; a sentinel reply never raises to
\* the caller; a dictionary with fewer than four fields was returned
\* because the query after its last field failed.
C37_Dict ==
    Querying =>
        /\ \A k \in 1..Len(Query.dict) : Query.dict[k].field = InfoQueries[k].field
        /\ (Query.state = "running" /\ InTransaction) =>
                /\ Query.pc = Len(Query.dict) + 1
                /\ txn.reqcode = GET_INFO
                /\ txn.data = <<InfoQueries[Query.pc].key>>
        /\ Query.state = "raised" => Query.err \notin {"ValueError", "NotImplementedError"}
        /\ (Query.state = "returned" /\ Len(Query.dict) < Len(InfoQueries)) =>
                /\ info.state = "raised"
                /\ info.err \in {"ValueError", "NotImplementedError"}
                /\ info.key = InfoQueries[Len(Query.dict) + 1].key

\* A query whose transaction ends is stored when it got a response or none,
\* None in the latter case, and the next query follows; a sentinel ends
\* the call with the dictionary as it was.
C37_QueryEnds ==
    (Querying /\ Query.state = "running" /\ InTransaction /\ txn'.state # "polling"
        /\ txn'.state # "hung") =>
        /\ (txn'.state = "returned" /\ txn'.result = None) =>
                /\ niimbot'.query.dict
                        = Append(Query.dict, [field |-> InfoQueries[Query.pc].field, value |-> None])
                /\ Query.pc < Len(InfoQueries) => niimbot'.query.state = "running"
        /\ (txn'.state = "returned" /\ txn'.result # None) =>
                niimbot'.query.dict
                    = Append(Query.dict, [field |-> InfoQueries[Query.pc].field,
                                          value |-> InfoValue(InfoQueries[Query.pc].key, txn'.result)])
        /\ (txn'.state = "raised" /\ txn'.err \in {"ValueError", "NotImplementedError"}) =>
                /\ niimbot'.query.state = "returned"
                /\ niimbot'.query.dict = Query.dict

\* C37: get_printer_info queries device serial, software version, hardware
\* version and battery in that order; a device-error or unsupported
\* reply does not raise to the caller but ends the querying, and the
\* dictionary holds exactly the fields queried before it; a query without
\* response stores None and the querying goes on.
C37_PrinterInfo == [](C37_Dict) /\ [][C37_QueryEnds]_vars

\* The first query got no response, the second an answer, the third the
\* unsupported-operation sentinel: two fields are returned.
C37_Witness ==
    /\ Querying
    /\ Query.state = "returned"
    /\ Len(Query.dict) = 2
    /\ Query.dict[1] = [field |-> "device_serial", value |-> None]
    /\ Query.dict[2].value # None
    /\ info.err = "NotImplementedError"

\* The packet print_image wrote last.
LastWritten == job.log[Len(job.log)]

\* C34: every packet written during print_image_file for a supported model
\* has a payload of at most 255 bytes, a row packet one of at most
\* 6 + ceil(384 / 8) = 54 bytes, and the length byte of the encoding of
\* each packet, looked at when it is written, is the length of its payload.
C34_PayloadLength ==
    Printing =>
        /\ \A k \in 1..Len(job.log) :
                /\ Len(job.log[k].data) <= 255
                /\ job.log[k].type = RowType => Len(job.log[k].data) <= 6 + CeilDiv8(WideHead)
        /\ job.log # <<>> => to_bytes(LastWritten)[4] = Len(LastWritten.data)

\* A row of an image 4704 pixels wide was written, scaled to the head
\* width: its payload has 54 bytes.
C34_Witness ==
    /\ Printing
    /\ niimbot.file.width = 4704
    /\ \E k \in 1..Len(job.log) : job.log[k].type = RowType /\ Len(job.log[k].data) = 54

\* The frame at the front of buf, as _recv cuts it.
FrontFrame(buf) == Slice(buf, 0, buf[4] + 7)

\* The frame at the front of buf is complete and from_bytes rejects it.
Poisoned(buf) ==
    /\ Len(buf) > 4
    /\ Len(buf) >= buf[4] + 7
    /\ ~from_bytes(FrontFrame(buf)).ok

\* The step is a poll round whose _recv call raises the framing error.
FramingError == InTransaction /\ txn'.state = "raised" /\ txn'.err = "AssertionError"

\* The step leaves the PrinterClient in place: connect() makes a new one.
SameClient == niimbot # None /\ niimbot' # None /\ niimbot'.connected = niimbot.connected

C33_Step ==
    /\ FramingError => Poisoned(packetbuf')
    /\ (Poisoned(packetbuf) /\ SameClient) =>
        /\ Poisoned(packetbuf')
        /\ FrontFrame(packetbuf') = FrontFrame(packetbuf)
        /\ (InTransaction /\ txn' # txn) =>
                txn'.state = "raised" /\ txn'.err = "AssertionError"

\* C33: a receive call that fails with a framing error leaves the rejected
\* frame at the front of the buffer, where it stays, and from then on every
\* receive call, hence every transaction, on the same client fails with the
\* framing error.
C33_NoResync == [][C33_Step]_vars

\* A print job failed with the framing error, and get_printer_info on the
\* same client then failed with it in its first query.
C33_Witness ==
    /\ niimbot # None
    /\ niimbot.connected = <<TRUE>>
    /\ niimbot.closes = <<>>
    /\ job # None
    /\ job.err = "AssertionError"
    /\ Len(job.log) >= 1
    /\ niimbot.query # None
    /\ niimbot.query.state = "raised"
    /\ niimbot.query.err = "AssertionError"
    /\ niimbot.query.dict = <<>>
    /\ txn.reads = 1
    /\ Poisoned(packetbuf)

RECURSIVE FramesLength(_, _)
\* The bytes of the first k frames of a batch.
FramesLength(packets, k) ==
    IF k = 0 THEN 0 ELSE FramesLength(packets, k - 1) + Len(packets[k].data) + 7

RECURSIVE BatchesLength(_, _)
\* The bytes of the frames of the first k batches.
BatchesLength(batches, k) ==
    IF k = 0 THEN 0
    ELSE BatchesLength(batches, k - 1) + FramesLength(batches[k], Len(batches[k]))

\* Where the packet that resolved transaction t ends in the bytes received
\* since its request was written: it is the last packet of the expected
\* type in the last batch.
ResolvedAt(t) ==
    LET batch == t.batches[Len(t.batches)]
        k == CHOOSE i \in 1..Len(batch) :
                /\ batch[i].type = t.respcode
                /\ \A j \in (i + 1)..Len(batch) : batch[j].type # t.respcode
    IN  BatchesLength(t.batches, Len(t.batches) - 1) + FramesLength(batch, k)

\* C31 (as stated): a transaction is resolved only by a packet the device
\* sent after the request of that transaction was written, never by one
\* that was pending in the transport or the receive buffer at that time.
C31_OwnReply ==
    (txn # None /\ txn.state = "returned" /\ txn.result # None) =>
        ResolvedAt(txn) > txn.pending

====
